---- MODULE Spec2Model ----
(***************************************************************************)
(* A model of the binary codec of cpp-traverse (traverse.h and             *)
(* traverse-variant.h): the variable length integer encoding, the binary   *)
(* writer and the binary reader, driven as the repository's tests drive    *)
(* them (write a value into a stringbuf, damage the bytes or not, read     *)
(* them back).                                                             *)
(*                                                                         *)
(* Machine words are bit vectors: a w-bit word is a sequence of w bits,    *)
(* least significant bit first, so that 64-bit arithmetic keeps its width. *)
(***************************************************************************)
EXTENDS Integers, Sequences, FiniteSets, TLC

\* ------------------------------------------------------------------------
\* Machine words
\* ------------------------------------------------------------------------

W64 == 64

\* a word given as a function on 1..w, as the sequence it is
Word(f) == SubSeq(f, 1, Len(f))

Zero(w) == Word([i \in 1..w |-> 0])

\* the w-bit word of a small natural number n (n < 2^31)
FromNat(n, w) == Word([i \in 1..w |-> IF i > 31 THEN 0 ELSE (n \div (2^(i-1))) % 2])

\* the w-bit word 2^k
Pow2(k, w) == Word([i \in 1..w |-> IF i = k + 1 THEN 1 ELSE 0])

\* the w-bit word 2^k - 1
Ones(k, w) == Word([i \in 1..w |-> IF i <= k THEN 1 ELSE 0])

IsZero(v) == \A i \in 1..Len(v) : v[i] = 0

\* bit i of a word, 0 beyond its width
Bit(v, i) == IF i <= Len(v) THEN v[i] ELSE 0

\* the 8 bits of a word from bit i on, as a number
ByteAt(v, i) ==
  Bit(v, i) + 2 * Bit(v, i + 1) + 4 * Bit(v, i + 2) + 8 * Bit(v, i + 3)
    + 16 * Bit(v, i + 4) + 32 * Bit(v, i + 5) + 64 * Bit(v, i + 6)
    + 128 * Bit(v, i + 7)

\* the 8 bits of a number below 256, least significant first
Bits8(n) ==
  <<n % 2, (n \div 2) % 2, (n \div 4) % 2, (n \div 8) % 2,
    (n \div 16) % 2, (n \div 32) % 2, (n \div 64) % 2, (n \div 128) % 2>>

RECURSIVE ToNat(_)
\* the number a word stands for; used only on words known to be below 2^31
ToNat(v) == IF Len(v) <= 8 THEN ByteAt(v, 1)
            ELSE ByteAt(v, 1) + 256 * ToNat(SubSeq(v, 9, Len(v)))

\* number of significant bits
BitLength(v) == IF IsZero(v) THEN 0
                ELSE CHOOSE k \in 1..Len(v) : v[k] = 1 /\ \A j \in (k+1)..Len(v) : v[j] = 0

\* v >> k and v << k on a word of fixed width, 0 <= k < width
Shr(v, k) == Word([i \in 1..Len(v) |-> IF i + k <= Len(v) THEN v[i + k] ELSE 0])
Shl(v, k) == Word([i \in 1..Len(v) |-> IF i - k >= 1 THEN v[i - k] ELSE 0])

BitOr(a, b)  == Word([i \in 1..Len(a) |-> IF a[i] = 1 \/ b[i] = 1 THEN 1 ELSE 0])
BitNot(a)    == Word([i \in 1..Len(a) |-> 1 - a[i]])

RECURSIVE AddFrom(_, _, _, _)
\* bits i.. of a + b with carry c into bit i, eight bits at a time
AddFrom(a, b, i, c) ==
  IF i > Len(a) THEN <<>>
  ELSE LET s == ByteAt(a, i) + ByteAt(b, i) + c
           n == IF Len(a) - i + 1 < 8 THEN Len(a) - i + 1 ELSE 8
       IN  SubSeq(Bits8(s % 256), 1, n) \o AddFrom(a, b, i + 8, s \div 256)

\* a + b modulo 2^width (ripple carry)
Add(a, b) == AddFrom(a, b, 1, 0)

\* -a and a - b modulo 2^width (two's complement)
Neg(a)    == Add(BitNot(a), FromNat(1, Len(a)))
Sub(a, b) == Add(a, Neg(b))

\* unsigned comparison a < b of two words of the same width
ULess(a, b) == \E k \in 1..Len(a) :
                  /\ a[k] < b[k]
                  /\ \A j \in (k+1)..Len(a) : a[j] = b[j]

\* sign bit of a two's complement word
IsNegative(v) == v[Len(v)] = 1

\* a conversion that saturates when the value does not fit
Truncate_Saturating(v, w) ==
  IF \E i \in (w + 1)..Len(v) : v[i] = 1 THEN Ones(w, w)
  ELSE Word([i \in 1..w |-> IF i <= Len(v) THEN v[i] ELSE 0])

\* static_cast between integer types: keep the low bits, or extend
Truncate(v, w)   == Word([i \in 1..w |-> IF i <= Len(v) THEN v[i] ELSE 0])
ZeroExtend(v, w) == Word([i \in 1..w |-> IF i <= Len(v) THEN v[i] ELSE 0])
SignExtend(v, w) == Word([i \in 1..w |-> IF i <= Len(v) THEN v[i] ELSE v[Len(v)]])

\* value & 0x7f
Low7(v) == ToNat(SubSeq(v, 1, 7))

\* ------------------------------------------------------------------------
\* Variable length integer encoding (traverse.h, namespace traverse)
\* ------------------------------------------------------------------------

EOF == -1

\* value >>= 8, where the code has value >>= 7
ShiftOut_By8(value) == Shr(value, 8)

\* value >>= 7
ShiftOut(value) == Shr(value, 7)

RECURSIVE write_unsigned_int(_)
\* the bytes write_unsigned_int(out, value) appends to out
write_unsigned_int(value) ==
  LET c    == Low7(value)
      rest == ShiftOut(value)
  IN  IF IsZero(rest) THEN <<c>>
      ELSE <<c + 128>> \o write_unsigned_int(rest)

\* the character kept in a char, so that the byte 255 compares equal to EOF
sgetc_AsChar(bytes, pos) ==
  IF pos < Len(bytes) /\ bytes[pos + 1] # 255 THEN bytes[pos + 1] ELSE EOF

\* in.sbumpc() / in.sgetc() on a stringbuf holding bytes, read position pos
sgetc(bytes, pos) == IF pos < Len(bytes) THEN bytes[pos + 1] ELSE EOF

\* the group shifted by byte * 8, where the code has byte * 7
ShiftGroup_By8(c, byte, ub) ==
  LET g == FromNat(c % 128, W64)
      s == byte * 8
  IN  IF s < W64 THEN Shl(g, s)
      ELSE IF ub = "zero" THEN Zero(W64)
      ELSE Shl(g, s % W64)

\* uint64_t(c & 0x7f) << (byte * 7).  A shift count of 64 or more is
\* undefined behaviour; ub names the outcome the build produces:
\* "zero" (the bits are shifted out) or "wrap" (the count is taken mod 64).
ShiftGroup(c, byte, ub) ==
  LET g == FromNat(c % 128, W64)
      s == byte * 7
  IN  IF s < W64 THEN Shl(g, s)
      ELSE IF ub = "zero" THEN Zero(W64)
      ELSE Shl(g, s % W64)

RECURSIVE read_loop(_, _, _, _, _)
read_loop(bytes, pos, byte, result, ub) ==
  LET c == sgetc(bytes, pos)
  IN  IF c < 0 THEN [ok |-> FALSE, value |-> result, pos |-> pos]
      ELSE LET r == BitOr(result, ShiftGroup(c, byte, ub))
           IN  IF c < 128 THEN [ok |-> TRUE, value |-> r, pos |-> pos + 1]
               ELSE read_loop(bytes, pos + 1, byte + 1, r, ub)

\* a read that delivers the groups accumulated so far when it fails
read_unsigned_int_Partial(bytes, pos, old, ub) ==
  read_loop(bytes, pos, 0, Zero(W64), ub)

\* read_unsigned_int(in, value): ok is the return value, value the new
\* contents of the reference argument (old when the function returns
\* false), pos the new read position.
read_unsigned_int(bytes, pos, old, ub) ==
  LET r == read_loop(bytes, pos, 0, Zero(W64), ub)
  IN  IF r.ok THEN r ELSE [ok |-> FALSE, value |-> old, pos |-> r.pos]

\* the mapping with -value where the code has -(value+1)
ZigZag_NoPlusOne(value) ==
  IF IsNegative(value)
  THEN BitOr(Shl(Neg(value), 1), FromNat(1, W64))
  ELSE Shl(value, 1)

\* the uint64_t that write_signed_int hands to write_unsigned_int
ZigZag(value) ==
  IF IsNegative(value)
  THEN BitOr(Shl(Neg(Add(value, FromNat(1, W64))), 1), FromNat(1, W64))
  ELSE Shl(value, 1)

write_signed_int(value) == write_unsigned_int(ZigZag(value))

read_signed_int(bytes, pos, ub) ==
  LET r       == read_unsigned_int(bytes, pos, Zero(W64), ub)
      decoded == r.value
  IN  [ok    |-> r.ok,
       value |-> IF decoded[1] = 1
                 THEN Sub(Neg(Shr(decoded, 1)), FromNat(1, W64))
                 ELSE Shr(decoded, 1),
       pos   |-> r.pos]

\* ------------------------------------------------------------------------
\* Shapes and values
\*
\* A shape is a record with a field kind:
\*   "int"     signed, w      an arithmetic integer type of w bits
\*   "bool"
\*   "char"                   char or signed char
\*   "enum"    signed, w      an enum with that underlying type
\*   "float"                  double
\*   "text"                   std::string
\*   "seq"     elem           std::vector<elem>
\*   "record"  fields         a TRAVERSE_STRUCT with those field shapes
\*   "variant" alts           variant<alts...>
\* A value of an int, char or enum shape is a word of the type's width; of
\* bool a BOOLEAN; of text a sequence of bytes; of seq and record a sequence
\* of values; of variant [which, val] with which counted from 0.  A double
\* is [neg, mag, frac]: sign, integral magnitude (a 64-bit word) and frac = 1
\* when the value has a fractional part of one half.
\* ------------------------------------------------------------------------

IntShape(signed, w)  == [kind |-> "int", signed |-> signed, w |-> w]
EnumShape(signed, w) == [kind |-> "enum", signed |-> signed, w |-> w]
BoolShape            == [kind |-> "bool"]
CharShape            == [kind |-> "char"]
FloatShape           == [kind |-> "float"]
TextShape            == [kind |-> "text"]
SeqShape(elem)       == [kind |-> "seq", elem |-> elem]
RecordShape(fields)  == [kind |-> "record", fields |-> fields]
VariantShape(alts)   == [kind |-> "variant", alts |-> alts]

\* int64_t(d) for a double d: the fractional part is discarded
DoubleToInt64(d) == IF d.neg THEN Neg(d.mag) ELSE d.mag

\* double(x) for an int64_t x: exact up to 53 significant bits, rounded to
\* nearest (ties to even) above
Int64ToDouble(x) ==
  LET neg  == IsNegative(x)
      m    == IF neg THEN Neg(x) ELSE x
      bl   == BitLength(m)
      drop == bl - 53
      low  == Word([i \in 1..W64 |-> IF i <= drop THEN m[i] ELSE 0])
      high == Word([i \in 1..W64 |-> IF i <= drop THEN 0 ELSE m[i]])
      half == Pow2(drop - 1, W64)
      up   == ULess(half, low) \/ (low = half /\ m[drop + 1] = 1)
  IN  [neg  |-> neg,
       mag  |-> IF bl <= 53 THEN m
                ELSE IF up THEN Add(high, Pow2(drop, W64)) ELSE high,
       frac |-> 0]

RECURSIVE DefaultValue(_)
\* T() : the value-initialized object emplace_back() and set<T>() construct
DefaultValue(shape) ==
  CASE shape.kind \in {"int", "enum"} -> Zero(shape.w)
    [] shape.kind = "char"    -> Zero(8)
    [] shape.kind = "bool"    -> FALSE
    [] shape.kind = "float"   -> [neg |-> FALSE, mag |-> Zero(W64), frac |-> 0]
    [] shape.kind = "text"    -> <<>>
    [] shape.kind = "seq"     -> <<>>
    [] shape.kind = "record"  ->
         [i \in 1..Len(shape.fields) |-> DefaultValue(shape.fields[i])]
    [] shape.kind = "variant" ->
         [which |-> 0, val |-> DefaultValue(shape.alts[1])]

\* ------------------------------------------------------------------------
\* BinarySerialize
\* ------------------------------------------------------------------------

RECURSIVE Flatten(_)
Flatten(seqs) == IF Len(seqs) = 0 THEN <<>> ELSE Head(seqs) \o Flatten(Tail(seqs))

\* visit(BinarySerialize&, const T&) for arithmetic T that is not signed
SerializeUnsigned(value) == write_unsigned_int(ZeroExtend(value, W64))

\* the signed value widened as if it were unsigned
SerializeSigned_ZeroExtended(value) == write_signed_int(ZeroExtend(value, W64))

\* visit(BinarySerialize&, const T&) for arithmetic T that is signed
SerializeSigned(value) == write_signed_int(SignExtend(value, W64))

RECURSIVE UpToNul(_)
UpToNul(string) == IF Len(string) = 0 \/ Head(string) = 0 THEN <<>>
                   ELSE <<Head(string)>> \o UpToNul(Tail(string))

\* the string written as a C string, up to its first zero byte
SerializeString_CString(string) ==
  write_unsigned_int(FromNat(Len(UpToNul(string)), W64)) \o UpToNul(string)

\* visit(BinarySerialize&, const std::string&)
SerializeString(string) ==
  write_unsigned_int(FromNat(Len(string), W64)) \o string

\* the character written as the signed integer of its code
SerializeChar_Signed(value) == write_signed_int(SignExtend(value, W64))

\* visit(BinarySerialize&, const char&) and visit(BinarySerialize&, const
\* signed char&): the value is cast to unsigned char and visited as such
SerializeChar(value) == SerializeUnsigned(Truncate(value, 8))

\* the enumerator written as an unsigned integer whatever its underlying type
SerializeEnum_AlwaysUnsigned(shape, value) == SerializeUnsigned(value)

\* visit(BinarySerialize&, const T&) for an enum T: the value is converted to
\* std::underlying_type_t<T> and visited as that integer
SerializeEnum(shape, value) ==
  IF shape.signed THEN SerializeSigned(value) ELSE SerializeUnsigned(value)

RECURSIVE Serialize(_, _)
\* the bytes visit(writer, value) appends to writer.out
Serialize(shape, value) ==
  CASE shape.kind = "int" ->
         IF shape.signed THEN SerializeSigned(value) ELSE SerializeUnsigned(value)
    [] shape.kind = "enum"   -> SerializeEnum(shape, value)
    [] shape.kind = "bool"   ->
         SerializeUnsigned(FromNat(IF value THEN 1 ELSE 0, 8))
    [] shape.kind = "char"   -> SerializeChar(value)
    [] shape.kind = "float"  -> write_signed_int(DoubleToInt64(value))
    [] shape.kind = "text"   -> SerializeString(value)
    [] shape.kind = "seq"    ->
         write_unsigned_int(FromNat(Len(value), W64))
           \o Flatten([i \in 1..Len(value) |-> Serialize(shape.elem, value[i])])
    [] shape.kind = "record" ->
         Flatten([i \in 1..Len(shape.fields) |-> Serialize(shape.fields[i], value[i])])
    [] shape.kind = "variant" ->
         SerializeUnsigned(FromNat(value.which, 32))
           \o Serialize(shape.alts[value.which + 1], value.val)

\* ------------------------------------------------------------------------
\* BinaryDeserialize
\*
\* A read returns [val, pos, errs]: the destination after the read, the new
\* read position of reader.in and the new contents of reader.errors.
\* env.ub is the outcome of an oversized shift (see ShiftGroup) and env.junk
\* the contents of an uninitialized uint64_t local.
\* ------------------------------------------------------------------------

buffersize == 1024

\* one line of reader.errors
Diagnostic(what, expected, found) ==
  [severity |-> "Error", what |-> what, expected |-> expected, found |-> found]

NumberError      == Diagnostic("not enough data in buffer to read number", <<>>, <<>>)
StringSizeError  == Diagnostic("not enough data in buffer to read string size", <<>>, <<>>)
VectorSizeError  == Diagnostic("not enough data in buffer to read vector size", <<>>, <<>>)
StringBodyError(size, found)  == Diagnostic("bytes in string", size, found)
VectorCountError(size, found) == Diagnostic("elements in vector", size, found)
VariantError(which, index)    == Diagnostic("tried to deserialize variant", which, index)

\* visit(BinaryDeserialize&, T&) for arithmetic T that is not signed, as the
\* uint64_t it casts to T
DeserializeUnsigned(bytes, pos, errs, env) ==
  LET r == read_unsigned_int(bytes, pos, env.junk, env.ub)
  IN  [val  |-> r.value,
       pos  |-> r.pos,
       errs |-> IF r.ok THEN errs ELSE Append(errs, NumberError)]

\* visit(BinaryDeserialize&, T&) for arithmetic T that is signed, as the
\* int64_t it casts to T
DeserializeSigned(bytes, pos, errs, env) ==
  LET r == read_signed_int(bytes, pos, env.ub)
  IN  [val  |-> r.value,
       pos  |-> r.pos,
       errs |-> IF r.ok THEN errs ELSE Append(errs, NumberError)]

Min(a, b) == IF a < b THEN a ELSE b

RECURSIVE ReadStringBody(_, _, _, _, _, _)
\* the while loop of visit(BinaryDeserialize&, std::string&)
ReadStringBody(bytes, pos, errs, size, string, bytes_remaining) ==
  IF IsZero(bytes_remaining) \/ sgetc(bytes, pos) = EOF
  THEN [val |-> string, pos |-> pos, errs |-> errs]
  ELSE LET bytes_to_read == IF ULess(bytes_remaining, FromNat(buffersize, W64))
                            THEN ToNat(bytes_remaining) ELSE buffersize
           bytes_actually_read == Min(bytes_to_read, Len(bytes) - pos)
           appended == string \o SubSeq(bytes, pos + 1, pos + bytes_actually_read)
       IN  IF bytes_actually_read < bytes_to_read
           THEN [val  |-> appended,
                 pos  |-> pos + bytes_actually_read,
                 errs |-> Append(errs,
                            StringBodyError(size,
                              FromNat(Len(appended) + bytes_actually_read, W64)))]
           ELSE ReadStringBody(bytes, pos + bytes_actually_read, errs, size, appended,
                               Sub(bytes_remaining, FromNat(bytes_actually_read, W64)))

\* visit(BinaryDeserialize&, std::string&)
DeserializeString(old, bytes, pos, errs, env) ==
  LET r == read_unsigned_int(bytes, pos, Zero(W64), env.ub)
  IN  IF ~r.ok
      THEN [val |-> old, pos |-> r.pos, errs |-> Append(errs, StringSizeError)]
      ELSE ReadStringBody(bytes, r.pos, errs, r.value, <<>>, r.value)

\* the vector left as it was, where the code has vector.clear()
vector_clear_Keeps(vector) == vector

\* vector.clear()
vector_clear(vector) == <<>>

RECURSIVE Deserialize(_, _, _, _, _, _)
RECURSIVE ReadElements(_, _, _, _, _, _, _, _)
RECURSIVE ReadFields(_, _, _, _, _, _, _)

\* the for loop of visit(BinaryDeserialize&, std::vector<Element>&) and the
\* test that follows it
ReadElements(elem, bytes, pos, errs, env, i, size, vector) ==
  IF ULess(FromNat(i, W64), size) /\ sgetc(bytes, pos) # EOF
  THEN LET r == Deserialize(elem, DefaultValue(elem), bytes, pos, errs, env)
       IN  ReadElements(elem, bytes, r.pos, r.errs, env, i + 1, size,
                        Append(vector, r.val))
  ELSE [val  |-> vector,
        pos  |-> pos,
        errs |-> IF FromNat(i, W64) # size
                 THEN Append(errs, VectorCountError(size, FromNat(i, W64)))
                 ELSE errs]

\* a chain that ends at the first field whose visit recorded a diagnostic
StructVisitor_field_Stops(k, n, before, after) ==
  IF after # before THEN n + 1 ELSE k + 1

\* StructVisitor::field returns *this after visit(visitor, value), whatever
\* the visit recorded: the chain of n .field() calls goes on with field k + 1
StructVisitor_field(k, n, before, after) == k + 1

\* the chain of .field() calls of a TRAVERSE_STRUCT, from field k on
ReadFields(fields, k, old, bytes, pos, errs, env) ==
  IF k > Len(fields) THEN [val |-> old, pos |-> pos, errs |-> errs]
  ELSE LET r == Deserialize(fields[k], old[k], bytes, pos, errs, env)
       IN  ReadFields(fields, StructVisitor_field(k, Len(fields), errs, r.errs),
                      [old EXCEPT ![k] = r.val], bytes, r.pos, r.errs, env)

\* the helper started with index 1, where the code starts it with 0
deserialize_variant_helper_FromOne(alts, which, old, bytes, pos, errs, env) ==
  IF \E index \in 1..Len(alts) : which = FromNat(index, 32)
  THEN LET index == CHOOSE index \in 1..Len(alts) : which = FromNat(index, 32)
           r     == Deserialize(alts[index], DefaultValue(alts[index]),
                                bytes, pos, errs, env)
       IN  [val |-> [which |-> index - 1, val |-> r.val], pos |-> r.pos, errs |-> r.errs]
  ELSE [val  |-> old,
        pos  |-> pos,
        errs |-> Append(errs, VariantError(which, FromNat(Len(alts), 32)))]

\* deserialize_variant_helper(reader, which, 0, value): which is an unsigned
\* (32-bit) word
deserialize_variant_helper(alts, which, old, bytes, pos, errs, env) ==
  IF \E index \in 0..(Len(alts) - 1) : which = FromNat(index, 32)
  THEN LET index == CHOOSE index \in 0..(Len(alts) - 1) : which = FromNat(index, 32)
           r     == Deserialize(alts[index + 1], DefaultValue(alts[index + 1]),
                                bytes, pos, errs, env)
       IN  [val |-> [which |-> index, val |-> r.val], pos |-> r.pos, errs |-> r.errs]
  ELSE [val  |-> old,
        pos  |-> pos,
        errs |-> Append(errs, VariantError(which, FromNat(Len(alts), 32)))]

\* visit(reader, value) for a destination value old of the given shape
Deserialize(shape, old, bytes, pos, errs, env) ==
  CASE shape.kind \in {"int", "enum"} ->
         LET r == IF shape.signed THEN DeserializeSigned(bytes, pos, errs, env)
                  ELSE DeserializeUnsigned(bytes, pos, errs, env)
         IN  [r EXCEPT !.val = Truncate(r.val, shape.w)]
    [] shape.kind = "bool" ->
         LET r == DeserializeUnsigned(bytes, pos, errs, env)
         IN  [r EXCEPT !.val = ~IsZero(r.val)]
    [] shape.kind = "char" ->
         LET r == DeserializeUnsigned(bytes, pos, errs, env)
         IN  [r EXCEPT !.val = Truncate(r.val, 8)]
    [] shape.kind = "float" ->
         LET r == DeserializeSigned(bytes, pos, errs, env)
         IN  [r EXCEPT !.val = Int64ToDouble(r.val)]
    [] shape.kind = "text" -> DeserializeString(old, bytes, pos, errs, env)
    [] shape.kind = "seq" ->
         LET r == read_unsigned_int(bytes, pos, Zero(W64), env.ub)
         IN  IF ~r.ok
             THEN [val |-> old, pos |-> r.pos, errs |-> Append(errs, VectorSizeError)]
             ELSE ReadElements(shape.elem, bytes, r.pos, errs, env, 0, r.value,
                               vector_clear(old))
    [] shape.kind = "record" ->
         ReadFields(shape.fields, 1, old, bytes, pos, errs, env)
    [] shape.kind = "variant" ->
         LET r == DeserializeUnsigned(bytes, pos, errs, env)
         IN  deserialize_variant_helper(shape.alts, Truncate(r.val, 32), old,
                                        bytes, r.pos, r.errs, env)

\* ------------------------------------------------------------------------
\* LuaReader (traverse-lua.h). A Lua value is a record with its type t; a
\* table holds its pairs in the order lua_next visits them. The Lua stack is
\* a sequence whose last element is index -1.
\* ------------------------------------------------------------------------

LuaNil         == [t |-> "nil"]
LuaBoolean(b)  == [t |-> "boolean", b |-> b]
LuaNumber(d)   == [t |-> "number", n |-> d]
LuaString(s)   == [t |-> "string", s |-> s]
LuaFunction    == [t |-> "function"]
LuaTable(prs)  == [t |-> "table", pairs |-> prs]
LuaPair(k, v)  == [key |-> k, val |-> v]

\* a TRAVERSE_STRUCT with the labels of its FIELDs
StructShape(name, labels, fields) ==
  [kind |-> "record", fields |-> fields, labels |-> labels, name |-> name]

\* one line of reader.errors of a LuaReader
LuaError(what, about) == [severity |-> "Error", what |-> what, about |-> about]

\* lua_type(L, index), index < 0
lua_type(L, index) == L[Len(L) + 1 + index].t

\* lua_pop(L, n)
lua_pop(L, n) == SubSeq(L, 1, Len(L) - n)

\* lua_rawgeti(L, -1, n), the value pushed: the value at the key n of the
\* table, nil when the key is absent
lua_rawgeti(table, n) ==
  LET key == LuaNumber([neg |-> FALSE, mag |-> FromNat(n, W64), frac |-> 0])
      at  == {i \in 1..Len(table.pairs) :
                table.pairs[i].key.t = key.t /\ table.pairs[i].key = key}
  IN  IF at = {} THEN LuaNil ELSE table.pairs[CHOOSE i \in at : TRUE].val

\* lua_getfield(L, -1, label), the value pushed (tables have no metatable):
\* the value at the key label of the table, nil when the key is absent
lua_getfield(table, label) ==
  LET key == LuaString(label)
      at  == {i \in 1..Len(table.pairs) :
                table.pairs[i].key.t = key.t /\ table.pairs[i].key = key}
  IN  IF at = {} THEN LuaNil ELSE table.pairs[CHOOSE i \in at : TRUE].val

RECURSIVE Border(_, _)
\* the border of a table that lua_len finds: t[n] is not nil and t[n+1] is
Border(table, n) ==
  IF lua_rawgeti(table, n + 1).t = "nil" THEN n ELSE Border(table, n + 1)

\* lua_tointeger(L, index) of a number
lua_tointeger(v) == DoubleToInt64(v.n)

\* lua_next(L, -2): pops the key at index -1 and pushes the pair that follows
\* it in the table at index -2, or pushes nothing after the last pair
lua_next(L) ==
  LET table == L[Len(L) - 1]
      key   == L[Len(L)]
      at    == IF key.t = "nil" THEN 0
               ELSE CHOOSE i \in 1..Len(table.pairs) :
                      table.pairs[i].key.t = key.t /\ table.pairs[i].key = key
      rest  == lua_pop(L, 1)
  IN  IF at = Len(table.pairs) THEN [more |-> FALSE, L |-> rest]
      ELSE [more |-> TRUE,
            L |-> rest \o <<table.pairs[at + 1].key, table.pairs[at + 1].val>>]

\* the wrong-type branch that keeps the value on the stack
LuaSkip_NoPop(L, errs, rd, what, about) ==
  [L |-> L,
   errs |-> IF rd.ignore_wrong_type THEN errs
            ELSE Append(errs, LuaError(what, about))]

\* the wrong-type branch of visit(LuaReader&, ...): report unless
\* ignore_wrong_type, pop the value, leave the C++ value alone
LuaSkip(L, errs, rd, what, about) ==
  [L |-> lua_pop(L, 1),
   errs |-> IF rd.ignore_wrong_type THEN errs
            ELSE Append(errs, LuaError(what, about))]

\* the loop over lua_next of visit(LuaReader&, std::vector<Element>&);
\* stack: ... input key
RECURSIVE LuaVectorKeys(_, _, _, _)
LuaVectorKeys(L, errs, rd, size) ==
  LET n == lua_next(L)
  IN  IF ~n.more THEN [L |-> n.L, errs |-> errs]
      ELSE LET key   == n.L[Len(n.L) - 1]
               index == lua_tointeger(key)
               found ==
                 IF lua_type(n.L, -2) # "number"
                 THEN <<LuaError("converting Lua table to std::vector, found non-numeric key", <<>>)>>
                 ELSE IF IsNegative(index) \/ IsZero(index) \/ ULess(size, index)
                 THEN <<LuaError("converting Lua table to std::vector, found key", index)>>
                 ELSE <<>>
           IN  LuaVectorKeys(lua_pop(n.L, 1),
                             IF rd.ignore_extra_field THEN errs ELSE errs \o found,
                             rd, size)

\* the loop over lua_next of StructVisitor<LuaReader>'s constructor;
\* stack: ... input key
RECURSIVE LuaStructKeys(_, _, _, _, _)
LuaStructKeys(L, errs, rd, name, lua_field_names) ==
  LET n == lua_next(L)
  IN  IF ~n.more THEN [L |-> n.L, errs |-> errs, lua_field_names |-> lua_field_names]
      ELSE LET key == n.L[Len(n.L) - 1]
           IN  IF lua_type(n.L, -2) # "string"
               THEN LuaStructKeys(lua_pop(n.L, 1),
                      IF rd.ignore_extra_field THEN errs
                      ELSE Append(errs, LuaError("found non-string key", name)),
                      rd, name, lua_field_names)
               ELSE LuaStructKeys(lua_pop(n.L, 1), errs, rd, name,
                                  Append(lua_field_names, key.s))

\* a missing field reported whatever the flag
LuaMissing_AlwaysReports(errs, rd, label) ==
  Append(errs, LuaError("Lua object missing field", label))

\* the nil branch of StructVisitor<LuaReader>::field
LuaMissing(errs, rd, label) ==
  IF rd.ignore_missing_field THEN errs
  ELSE Append(errs, LuaError("Lua object missing field", label))

RECURSIVE LuaVisit(_, _, _, _, _)
RECURSIVE LuaElements(_, _, _, _, _, _, _)
RECURSIVE LuaFields(_, _, _, _, _, _, _, _)

\* for (i = 0; i < size; i++) { lua_rawgeti(L, -1, i+1); visit(reader, vector[i]); }
LuaElements(elem, vector, L, errs, rd, i, size) ==
  IF i >= size THEN [val |-> vector, L |-> L, errs |-> errs]
  ELSE LET r == LuaVisit(elem, vector[i + 1],
                         Append(L, lua_rawgeti(L[Len(L)], i + 1)), errs, rd)
       IN  LuaElements(elem, [vector EXCEPT ![i + 1] = r.val], r.L, r.errs, rd,
                       i + 1, size)

\* the calls of StructVisitor<LuaReader>::field in the order of the FIELDs,
\* then the destructor ~StructVisitor<LuaReader>(): the input is popped and
\* the keys left in lua_field_names are reported
LuaFields(shape, k, obj, L, errs, rd, lua_field_names, is_table) ==
  IF k > Len(shape.fields)
  THEN [val |-> obj, L |-> lua_pop(L, 1),
        errs |-> IF ~rd.ignore_extra_field /\ lua_field_names # <<>>
                 THEN Append(errs, LuaError("Lua object contains extra keys", lua_field_names))
                 ELSE errs]
  ELSE IF ~is_table
  THEN LuaFields(shape, k + 1, obj, L, errs, rd, lua_field_names, is_table)
  ELSE LET label == shape.labels[k]
           L1    == Append(L, lua_getfield(L[Len(L)], label))
       IN  IF lua_type(L1, -1) = "nil"
           THEN LuaFields(shape, k + 1, obj, lua_pop(L1, 1),
                          LuaMissing(errs, rd, label), rd, lua_field_names, is_table)
           ELSE LET known == \E i \in 1..Len(lua_field_names) : lua_field_names[i] = label
                    errs1 == IF ~rd.ignore_extra_field /\ ~known
                             THEN Append(errs, LuaError("lua table lost field during traverse", label))
                             ELSE errs
                    \* it = find(begin, end, label); std::swap(*it,
                    \* lua_field_names.back()); lua_field_names.pop_back()
                    it    == CHOOSE i \in 1..Len(lua_field_names) :
                               /\ lua_field_names[i] = label
                               /\ \A j \in 1..(i - 1) : lua_field_names[j] # label
                    last  == Len(lua_field_names)
                    names == IF ~rd.ignore_extra_field /\ known
                             THEN SubSeq([lua_field_names EXCEPT ![it] = lua_field_names[last]],
                                         1, last - 1)
                             ELSE lua_field_names
                    r     == LuaVisit(shape.fields[k], obj[k], L1, errs1, rd)
                IN  LuaFields(shape, k + 1, [obj EXCEPT ![k] = r.val], r.L, r.errs,
                              rd, names, is_table)

\* visit(reader, value) for a LuaReader: the C++ value, the stack and the
\* errors afterwards
LuaVisit(shape, old, L, errs, rd) ==
  CASE shape.kind \in {"int", "enum", "float"} ->
         IF lua_type(L, -1) # "number"
         THEN LET r == LuaSkip(L, errs, rd, "expected Lua number", <<>>)
              IN  [val |-> old, L |-> r.L, errs |-> r.errs]
         ELSE [val |-> IF shape.kind = "float" THEN L[Len(L)].n
                       ELSE Truncate(lua_tointeger(L[Len(L)]), shape.w),
               L |-> lua_pop(L, 1), errs |-> errs]
    [] shape.kind = "text" ->
         IF lua_type(L, -1) # "string"
         THEN LET r == LuaSkip(L, errs, rd, "expected Lua string", <<>>)
              IN  [val |-> old, L |-> r.L, errs |-> r.errs]
         ELSE [val |-> L[Len(L)].s, L |-> lua_pop(L, 1), errs |-> errs]
    [] shape.kind = "seq" ->
         IF lua_type(L, -1) # "table"
         THEN LET r == LuaSkip(L, errs, rd, "expected Lua array(table)", <<>>)
              IN  [val |-> old, L |-> r.L, errs |-> r.errs]
         ELSE LET \* lua_len(L, -1), the value pushed
                  len  == LuaNumber([neg |-> FALSE, frac |-> 0,
                                     mag |-> FromNat(Border(L[Len(L)], 0), W64)])
                  \* size_t size; visit(reader, size)
                  s    == LuaVisit(IntShape(FALSE, W64), Zero(W64),
                                   Append(L, len), errs, rd)
                  size == ToNat(s.val)
                  \* vector.resize(size)
                  resized ==
                    Word([i \in 1..size |->
                            IF i <= Len(old) THEN old[i] ELSE DefaultValue(shape.elem)])
                  e    == LuaElements(shape.elem, resized, s.L, s.errs, rd, 0, size)
                  \* lua_pushnil(reader.L)
                  k    == LuaVectorKeys(Append(e.L, LuaNil), e.errs, rd, s.val)
              IN  [val |-> e.val, L |-> lua_pop(k.L, 1), errs |-> k.errs]
    [] shape.kind = "record" ->
         IF lua_type(L, -1) # "table"
         THEN LET errs1 == IF rd.ignore_wrong_type THEN errs
                           ELSE Append(errs, LuaError("expected Lua object(table) to read into struct", shape.name))
              IN  LuaFields(shape, 1, old, L, errs1, rd, <<>>, FALSE)
         ELSE LET c == LuaStructKeys(Append(L, LuaNil), errs, rd, shape.name, <<>>)
              IN  LuaFields(shape, 1, old, c.L, c.errs, rd, c.lua_field_names, TRUE)

\* ------------------------------------------------------------------------
\* RapidJsonReader (traverse-rapidjson.h) and PicoJsonReader
\* (traverse-picojson.h). A JSON value is a record with its type t; a number
\* keeps whether it was written with a fraction or exponent (real), which is
\* what rapidjson's IsInt64 / IsUint64 look at; an object holds its members
\* in document order.
\* ------------------------------------------------------------------------

JsonNull           == [t |-> "null"]
JsonBool(b)        == [t |-> "bool", b |-> b]
JsonNumber(d, real) == [t |-> "number", n |-> d, real |-> real]
JsonString(s)      == [t |-> "string", s |-> s]
JsonArray(items)   == [t |-> "array", items |-> items]
JsonObject(mems)   == [t |-> "object", members |-> mems]
JsonMember(k, v)   == [name |-> k, value |-> v]

\* one line of reader.errors of a JSON reader
JsonWarning(what, about) == [severity |-> "Warning", what |-> what, about |-> about]

\* input.FindMember(label) / input.find(key): the position of the member, 0
\* for MemberEnd() / end()
FindMember(input, label) ==
  LET at == {i \in 1..Len(input.members) : input.members[i].name = label}
  IN  IF at = {} THEN 0 ELSE CHOOSE i \in at : \A j \in at : i <= j

RECURSIVE JsonVisit(_, _, _, _, _, _)
RECURSIVE JsonElements(_, _, _, _, _, _, _)
RECURSIVE JsonFields(_, _, _, _, _, _, _)

\* for (auto& json_element : array) { vector.push_back(Element()); visit(...); }
JsonElements(lib, elem, vector, items, i, errs, junk) ==
  IF i > Len(items) THEN [val |-> vector, errs |-> errs, crashed |-> FALSE]
  ELSE LET r == JsonVisit(lib, elem, DefaultValue(elem), items[i], errs, junk)
       IN  IF r.crashed
           THEN [val |-> Append(vector, r.val), errs |-> r.errs, crashed |-> TRUE]
           ELSE JsonElements(lib, elem, Append(vector, r.val), items, i + 1,
                             r.errs, junk)

\* the calls of StructVisitor<...JsonReader>::field in the order of the
\* FIELDs; the MemberEnd() branch appends a warning and visits nothing
JsonFields(lib, shape, k, obj, input, errs, junk) ==
  IF k > Len(shape.fields) THEN [val |-> obj, errs |-> errs, crashed |-> FALSE]
  ELSE LET i == FindMember(input, shape.labels[k])
       IN  IF i = 0
           THEN JsonFields(lib, shape, k + 1, obj, input,
                           Append(errs, JsonWarning("JSON object missing field",
                                                    shape.labels[k])),
                           junk)
           ELSE LET r == JsonVisit(lib, shape.fields[k], obj[k],
                                   input.members[i].value, errs, junk)
                IN  IF r.crashed
                    THEN [val |-> [obj EXCEPT ![k] = r.val], errs |-> r.errs,
                          crashed |-> TRUE]
                    ELSE JsonFields(lib, shape, k + 1, [obj EXCEPT ![k] = r.val],
                                    input, r.errs, junk)

\* visit(reader, value) for a RapidJsonReader or a PicoJsonReader: the C++
\* value and the errors afterwards; crashed when the library's precondition
\* fails (RAPIDJSON_ASSERT(IsObject()) in FindMember, PICOJSON_ASSERT in
\* get<object>())
JsonVisit(lib, shape, old, in, errs, junk) ==
  LET \* reader.in.IsUint64() / IsInt64() / IsNumber() as the arithmetic
      \* visit() of the type asks it; reader.in.is<double>() for picojson
      IsNumber ==
        /\ in.t = "number"
        /\ lib = "rapidjson" =>
             CASE shape.kind \in {"float", "bool"} -> TRUE
               [] shape.signed ->
                    /\ ~in.real
                    /\ IF in.n.neg THEN ~ULess(Pow2(63, W64), in.n.mag)
                       ELSE in.n.mag[W64] = 0
               [] OTHER -> ~in.real /\ (~in.n.neg \/ IsZero(in.n.mag))
      \* T(reader.in.GetUint64()), T(reader.in.GetInt64()),
      \* reader.in.GetDouble(), T(reader.in.get<double>())
      ToNumber ==
        CASE shape.kind = "float" -> in.n
          [] shape.kind = "bool"  -> ~(IsZero(in.n.mag) /\ in.n.frac = 0)
          [] OTHER -> Truncate(DoubleToInt64(in.n), shape.w)
      \* the text of the warning of the arithmetic visit()
      What ==
        CASE lib = "picojson" -> "expected JSON number; skipping"
          [] shape.kind = "float" -> "expected JSON number; skipping"
          [] shape.kind = "bool" -> "expected JSON bool or number; skipping"
          [] shape.signed -> "expected JSON int; skipping"
          [] OTHER -> "expected JSON uint; skipping"
      \* `typename std::underlying_type<T>::type v;` of the enum reader: an
      \* uninitialized local
      v == Truncate(junk, shape.w)
  IN
  CASE shape.kind \in {"int", "float"} ->
         IF IsNumber
         THEN [val |-> ToNumber, errs |-> errs, crashed |-> FALSE]
         ELSE [val |-> old, crashed |-> FALSE,
               errs |-> Append(errs, JsonWarning(What, <<>>))]
    [] shape.kind = "bool" ->
         IF lib = "rapidjson" /\ in.t = "bool"
         THEN [val |-> in.b, errs |-> errs, crashed |-> FALSE]
         ELSE IF IsNumber
         THEN [val |-> ToNumber, errs |-> errs, crashed |-> FALSE]
         ELSE [val |-> old, crashed |-> FALSE,
               errs |-> Append(errs, JsonWarning(What, <<>>))]
    [] shape.kind = "enum" ->
         JsonVisit(lib, IntShape(shape.signed, shape.w), v, in, errs, junk)
    [] shape.kind = "text" ->
         IF in.t = "string"
         THEN [val |-> in.s, errs |-> errs, crashed |-> FALSE]
         ELSE [val |-> old, crashed |-> FALSE,
               errs |-> Append(errs, JsonWarning("expected JSON string; skipping", <<>>))]
    [] shape.kind = "seq" ->
         IF in.t = "array"
         THEN JsonElements(lib, shape.elem, vector_clear(old), in.items, 1, errs, junk)
         ELSE [val |-> old, crashed |-> FALSE,
               errs |-> Append(errs, JsonWarning("expected JSON array; skipping", <<>>))]
    [] shape.kind = "record" ->
         IF in.t = "object"
         THEN JsonFields(lib, shape, 1, old, in, errs, junk)
         ELSE IF lib = "picojson"
         THEN [val |-> old, errs |-> errs, crashed |-> TRUE]
         ELSE [val |-> old, crashed |-> Len(shape.fields) > 0,
               errs |-> Append(errs, JsonWarning("expected JSON object; skipping", <<>>))]

\* ------------------------------------------------------------------------
\* The types and values of the tests (test.h, test-traverse.cpp,
\* test-variant.cpp, fuzz-gen.cpp)
\* ------------------------------------------------------------------------

S64(n) == IF n < 0 THEN Neg(FromNat(-n, W64)) ELSE FromNat(n, W64)
SInt(n, w) == Truncate(S64(n), w)

int    == IntShape(TRUE, 32)
Point  == RecordShape(<<int, int>>)
Color  == EnumShape(FALSE, 32)
Mood   == EnumShape(FALSE, 32)
Signed == EnumShape(TRUE, 32)
Polygon == RecordShape(<<Color, Mood, TextShape, SeqShape(Point)>>)

Move    == RecordShape(<<int, int>>)
Create  == RecordShape(<<int, int, int>>)
Quit    == RecordShape(<<int>>)
Message == VariantShape(<<Create, Move, Quit>>)
MessageQueue == SeqShape(Message)

\* a struct with no FIELD
Empty == RecordShape(<<>>)

PointValue(x, y) == <<SInt(x, 32), SInt(y, 32)>>
Double(neg, n, frac) == [neg |-> neg, mag |-> FromNat(n, W64), frac |-> frac]

\* "UFO\"1942\""
UFO == <<85, 70, 79, 34, 49, 57, 52, 50, 34>>

polygon == <<FromNat(1, 32), FromNat(2, 32), UFO,
             <<PointValue(3, 5), PointValue(4, 6), PointValue(5, 7)>> >>

m1 == [which |-> 1, val |-> <<SInt(1, 32), SInt(2, 32)>>]
m2 == [which |-> 0, val |-> <<SInt(42, 32), SInt(-10, 32), SInt(-10, 32)>>]
m3 == [which |-> 2, val |-> <<SInt(100, 32)>>]

Case(name, shape, value) == [name |-> name, shape |-> shape, value |-> value]

\* the objects the tests hand to visit(serialize, obj)
Cases == <<
  Case("polygon", Polygon, polygon),
  Case("fuzz polygon", Polygon,
       <<FromNat(1, 32), FromNat(1, 32), <<0>>, <<PointValue(3, 5)>> >>),
  Case("fuzz polygon 2", Polygon,
       <<FromNat(1, 32), FromNat(1, 32), <<104, 101, 108, 108, 111>>,
         <<PointValue(3, 5), PointValue(-100, 900)>> >>),
  Case("queue", MessageQueue, <<m1, m2>>),
  Case("m1", Message, m1),
  Case("m2", Message, m2),
  Case("m3", Message, m3),
  Case("int 0", int, SInt(0, 32)),
  Case("int -1", int, SInt(-1, 32)),
  Case("int 1", int, SInt(1, 32)),
  Case("int 1024", int, SInt(1024, 32)),
  Case("long 1", IntShape(TRUE, 64), SInt(1, 64)),
  Case("unsigned 1", IntShape(FALSE, 32), FromNat(1, 32)),
  Case("int16 -1563", IntShape(TRUE, 16), SInt(-1563, 16)),
  Case("int min", int, Pow2(31, 32)),
  Case("uint64 17291729", IntShape(FALSE, 64), FromNat(17291729, W64)),
  Case("uint64 max", IntShape(FALSE, 64), Ones(64, W64)),
  Case("int64 min", IntShape(TRUE, 64), Pow2(63, W64)),
  Case("bool", BoolShape, TRUE),
  Case("char @", CharShape, FromNat(64, 8)),
  Case("char 0xff", CharShape, FromNat(255, 8)),
  Case("HULK_SMASH", Mood, FromNat(2, 32)),
  Case("NEGATIVE", Signed, SInt(-1, 32)),
  Case("ONE", Signed, SInt(1, 32)),
  Case("double 3", FloatShape, Double(FALSE, 3, 0)),
  Case("double 0.5", FloatShape, Double(FALSE, 0, 1)),
  Case("double -2.5", FloatShape, Double(TRUE, 2, 1)),
  Case("text empty", TextShape, <<>>),
  Case("text UFO", TextShape, UFO),
  Case("text bytes", TextShape, <<0, 255, 128, 0, 10>>),
  Case("texts", SeqShape(TextShape), <<<<97>>, <<98, 99>>>>),
  Case("points", SeqShape(Point), <<PointValue(1, 2), <<SInt(2147483647, 32), Pow2(31, 32)>> >>),
  Case("no points", SeqShape(Point), <<>>),
  Case("nested", SeqShape(SeqShape(IntShape(FALSE, 16))),
       << <<FromNat(300, 16)>>, <<>>, <<FromNat(1, 16), FromNat(65535, 16)>> >>),
  Case("empties", SeqShape(Empty), << <<>>, <<>> >>),
  Case("text and empties", RecordShape(<<TextShape, SeqShape(Empty)>>),
       << <<3>>, << <<>> >> >>),
  Case("bool false", BoolShape, FALSE),
  Case("enum HAPPY", Mood, FromNat(0, 32)),
  Case("enum ZERO", Signed, SInt(0, 32))
>>

\* ------------------------------------------------------------------------
\* Inputs
\* ------------------------------------------------------------------------

\* largest k with 2^k tried by the loops of test-int-encoding.cpp
MaxShiftU == 62
MaxShiftS == 61

\* the tests try every integer up to 1000000; the model up to MaxSmall
MaxSmall == 40

\* longest run of bytes appended after a complete message
MaxExtra == 2

One64 == FromNat(1, W64)

\* the arguments of test_roundtrip_u in main
U64Inputs ==
  {Zero(W64), One64, Sub(Ones(63, W64), One64), Ones(63, W64), Pow2(63, W64),
   Add(Pow2(63, W64), One64), Sub(Ones(64, W64), One64), Ones(64, W64)}
  \cup UNION {{Sub(Pow2(k, W64), One64), Pow2(k, W64), Add(Pow2(k, W64), One64)}
              : k \in 0..MaxShiftU}
  \cup {FromNat(n, W64) : n \in 0..MaxSmall}

\* the arguments of test_roundtrip_s in main
S64Inputs ==
  {Zero(W64), One64, S64(-2), S64(-1), Sub(Ones(63, W64), One64), Ones(63, W64),
   Pow2(63, W64), Add(Pow2(63, W64), One64)}
  \cup UNION {{Sub(Neg(Pow2(k, W64)), One64), Neg(Pow2(k, W64)),
               Add(Neg(Pow2(k, W64)), One64),
               Sub(Pow2(k, W64), One64), Pow2(k, W64), Add(Pow2(k, W64), One64)}
              : k \in 0..MaxShiftS}
  \cup {S64(n) : n \in (-MaxSmall)..MaxSmall}

\* what an uninitialized uint64_t may hold
JunkWords == {Zero(W64), Ones(64, W64)}

\* outcomes of a shift by 64 or more
ShiftOutcomes == {"zero", "wrap"}

\* b with bit k flipped
FlipBit(b, k) == IF (b \div (2^k)) % 2 = 1 THEN b - 2^k ELSE b + 2^k

\* the bytes a damaged message may hold in place of b
CorruptBytes(b) == ({FlipBit(b, k) : k \in 0..7} \cup {0, 127, 251, 255}) \ {b}

\* the bytes appended after a complete message
ExtraBytes == {0, 49, 128}

RECURSIVE SeqsUpTo(_, _)
\* the sequences over S of length 1..n
SeqsUpTo(S, n) ==
  IF n = 0 THEN {}
  ELSE {<<x>> : x \in S}
       \cup {Append(q, x) : q \in SeqsUpTo(S, n - 1), x \in S}

\* 0xdeadbeefdeadbeef, the destination of "Integer size grew"
deadbeef == LET h == BitOr(Shl(FromNat(57005, W64), 16), FromNat(48879, W64))
            IN  BitOr(Shl(h, 32), h)

\* widths of the integer types written and read
SignedWidths   == {16, 32, 64}
UnsignedWidths == {8, 16, 32, 64}

\* values written from one width and read into another: those of the tests
\* (-1563 and 17291729) and the ends of the ranges
SignedValues   == {S64(-1563), S64(-1), S64(0), S64(1), S64(1024),
                   S64(32767), S64(-32768)}
UnsignedValues == {Zero(W64), One64, FromNat(300, W64), FromNat(65535, W64),
                   FromNat(17291729, W64), Ones(32, W64), Ones(64, W64)}

\* "Integer size grew" and "Integer size shrunk": a value of one type, a
\* destination of another type of the same signedness
AllResizes ==
  {[from  |-> IntShape(TRUE, w), value |-> Truncate(v, w),
    to    |-> IntShape(TRUE, w2), prior |-> Truncate(deadbeef, w2)]
     : v \in SignedValues, w \in SignedWidths, w2 \in SignedWidths}
  \cup
  {[from  |-> IntShape(FALSE, p[1]), value |-> Truncate(p[2], p[1]),
    to    |-> IntShape(FALSE, w2), prior |-> Truncate(deadbeef, w2)]
     : p \in {q \in UnsignedWidths \X UnsignedValues : BitLength(q[2]) <= q[1]},
       w2 \in UnsignedWidths}

Resizes == {r \in AllResizes : r.from # r.to}

\* discriminants a sender may put on the wire
WireDiscriminants ==
  {FromNat(3, W64), FromNat(4, W64), FromNat(127, W64), FromNat(379, W64),
   Pow2(32, W64), Add(Pow2(32, W64), One64), Add(Pow2(32, W64), FromNat(3, W64)),
   Pow2(63, W64), Ones(64, W64)}

\* what follows the discriminant
WirePayloads == {<<>>, <<2, 4>>, <<84, 19, 19>>}

\* text lengths and element counts a sender may put on the wire
WireSizes ==
  {Zero(W64), One64, FromNat(3, W64), FromNat(9, W64), FromNat(127, W64),
   FromNat(buffersize, W64), FromNat(buffersize + 1, W64),
   FromNat(2 * buffersize, W64), Pow2(32, W64), Ones(64, W64)}

\* n bytes 'a'
Run(n) == Word([i \in 1..n |-> 97])

\* what follows the length of a text: nothing, a few bytes, and runs that
\* end just before, at and just after the end of the reader's buffer
TextPayloads ==
  {<<>>, <<120>>, UFO, Run(buffersize - 1), Run(buffersize), Run(buffersize + 1)}

WirePrefixes(sh) == IF sh.kind = "variant" THEN WireDiscriminants ELSE WireSizes
WireBodies(sh)   == IF sh.kind = "text" THEN TextPayloads ELSE WirePayloads

RECURSIVE ZeroWidth(_)
\* a type whose encoding is no bytes at all: a struct without fields, or of
\* such structs
ZeroWidth(sh) ==
  sh.kind = "record" /\ \A i \in 1..Len(sh.fields) : ZeroWidth(sh.fields[i])

\* the longest vector of elements that take no bytes the model builds; the
\* reader's loop runs as many times as the count says when such elements are
\* followed by any byte
MaxAlloc == 8

\* the longest run of bytes with bit 7 set handed to read_unsigned_int
MaxRun == 12

\* ------------------------------------------------------------------------
\* The types and values of test-lua.cpp, test-rapidjson.cpp and
\* test-picojson.cpp
\* ------------------------------------------------------------------------

\* the labels of the FIELDs and the strings of the tests, as characters
strings == [
  x         |-> <<120>>,
  y         |-> <<121>>,
  z         |-> <<122>>,
  a         |-> <<97>>,
  b         |-> <<98>>,
  color     |-> <<99, 111, 108, 111, 114>>,
  mood      |-> <<109, 111, 111, 100>>,
  name      |-> <<110, 97, 109, 101>>,
  points    |-> <<112, 111, 105, 110, 116, 115>>,
  UNUSED    |-> <<85, 78, 85, 83, 69, 68>>,
  WRONGTYPE |-> <<87, 82, 79, 78, 71, 84, 89, 80, 69>>,
  hello     |-> <<104, 101, 108, 108, 111>>,
  hi        |-> <<104, 105>>,
  five      |-> <<53>>
]

\* TRAVERSE_STRUCT(Point, FIELD(x) FIELD(y)) and Polygon of test.h
TraversePoint == StructShape("Point", <<strings.x, strings.y>>, <<int, int>>)
TraversePolygon ==
  StructShape("Polygon", <<strings.color, strings.mood, strings.name, strings.points>>,
              <<Color, Mood, TextShape, SeqShape(TraversePoint)>>)

\* int i; float f; std::string s; std::vector<int> v; Point p; Polygon p1
LuaDestinations ==
  LET Destination(sh, v) == [shape |-> sh, prior |-> v]
  IN <<
  Destination(int, SInt(0, 32)),
  Destination(int, SInt(-77, 32)),
  Destination(FloatShape, Double(FALSE, 0, 0)),
  Destination(TextShape, <<>>),
  Destination(TextShape, UFO),
  Destination(SeqShape(int), <<>>),
  Destination(SeqShape(int), <<SInt(9, 32), SInt(8, 32)>>),
  Destination(TraversePoint, PointValue(0, 0)),
  Destination(TraversePoint, PointValue(8, 9)),
  Destination(TraversePolygon, DefaultValue(TraversePolygon)),
  Destination(TraversePolygon, polygon)
>>

\* the expressions given to lua_eval
LuaInputs ==
  LET LuaNum(n) == LuaNumber(Double(n < 0, IF n < 0 THEN -n ELSE n, 0))
      LuaPoint(x, y) ==
        LuaTable(<<LuaPair(LuaString(strings.x), LuaNum(x)),
                   LuaPair(LuaString(strings.y), LuaNum(y))>>)
  IN <<
  LuaNum(5),
  LuaNumber(Double(FALSE, 0, 1)),
  LuaString(strings.hello),
  LuaTable(<<LuaPair(LuaString(strings.color), LuaNum(1)),
             LuaPair(LuaString(strings.mood), LuaNum(2)),
             LuaPair(LuaString(strings.name), LuaString(UFO)),
             LuaPair(LuaString(strings.points),
                     LuaTable(<<LuaPair(LuaNum(1), LuaPoint(3, 5)),
                                LuaPair(LuaNum(2), LuaPoint(4, 6)),
                                LuaPair(LuaNum(3), LuaPoint(5, 7))>>))>>),
  LuaString(strings.five),
  LuaTable(<<LuaPair(LuaNum(-3), LuaNum(0))>>),
  LuaTable(<<LuaPair(LuaNum(100), LuaNum(0))>>),
  LuaTable(<<LuaPair(LuaString(strings.a), LuaNum(0))>>),
  LuaTable(<<LuaPair(LuaBoolean(FALSE), LuaNum(0))>>),
  LuaTable(<<LuaPair(LuaString(strings.x), LuaNum(3)),
             LuaPair(LuaString(strings.y), LuaNum(4)),
             LuaPair(LuaString(strings.z), LuaNum(5))>>),
  LuaTable(<<LuaPair(LuaString(strings.z), LuaNum(5)),
             LuaPair(LuaString(strings.y), LuaNum(4)),
             LuaPair(LuaString(strings.x), LuaNum(3))>>),
  LuaTable(<<LuaPair(LuaNum(1), LuaNum(5)),
             LuaPair(LuaString(strings.x), LuaNum(3)),
             LuaPair(LuaString(strings.y), LuaNum(4))>>),
  LuaTable(<<LuaPair(LuaString(strings.x), LuaNum(3))>>),
  LuaNum(1),
  LuaString(strings.hi),
  LuaTable(<<>>),
  LuaFunction,
  LuaBoolean(FALSE),
  LuaNil,
  LuaPoint(3, 4),
  LuaTable(<<LuaPair(LuaString(strings.y), LuaNum(4)),
             LuaPair(LuaString(strings.x), LuaString(strings.five))>>),
  LuaTable(<<LuaPair(LuaNum(1), LuaNum(7)), LuaPair(LuaNum(2), LuaNum(8))>>),
  LuaTable(<<LuaPair(LuaNum(1), LuaNum(7)), LuaPair(LuaNum(2), LuaString(strings.hi)),
             LuaPair(LuaNum(3), LuaNum(9)), LuaPair(LuaNum(5), LuaNum(1))>>)
>>

\* LuaReader::ignore_wrong_type, ignore_missing_field, ignore_extra_field
\* as the constructor leaves them
NoIgnore ==
  [ignore_wrong_type |-> FALSE, ignore_missing_field |-> FALSE,
   ignore_extra_field |-> FALSE]

\* T output; Polygon polygon2; of the JSON tests
JsonDestinations ==
  LET Destination(sh, v) == [shape |-> sh, prior |-> v]
      \* TRAVERSE_STRUCT(LineSegment, FIELD(a) FIELD(b))
      TraverseLineSegment ==
        StructShape("LineSegment", <<strings.a, strings.b>>,
                    <<TraversePoint, TraversePoint>>)
  IN <<
  Destination(BoolShape, FALSE),
  Destination(BoolShape, TRUE),
  Destination(int, SInt(0, 32)),
  Destination(int, SInt(-77, 32)),
  Destination(IntShape(FALSE, W64), FromNat(77, W64)),
  Destination(FloatShape, Double(FALSE, 7, 1)),
  Destination(TextShape, UFO),
  Destination(Color, FromNat(1, 32)),
  Destination(TraversePoint, PointValue(0, 0)),
  Destination(TraversePoint, PointValue(8, 9)),
  Destination(TraverseLineSegment, <<PointValue(1, 7), PointValue(13, 19)>>),
  Destination(TraversePolygon, DefaultValue(TraversePolygon)),
  Destination(TraversePolygon, polygon)
>>

\* the documents given to json.Parse / picojson::parse
JsonInputs ==
  LET JsonInt(n) == JsonNumber(Double(n < 0, IF n < 0 THEN -n ELSE n, 0), FALSE)
      JsonPoint(x, y) ==
        JsonObject(<<JsonMember(strings.x, JsonInt(x)),
                     JsonMember(strings.y, JsonInt(y))>>)
  IN <<
  JsonBool(FALSE),
  JsonBool(TRUE),
  JsonInt(0),
  JsonInt(1),
  JsonInt(-1),
  JsonNumber(Double(FALSE, 0, 0), TRUE),
  JsonNumber(Double(FALSE, 1, 0), TRUE),
  JsonNull,
  JsonString(strings.hello),
  JsonArray(<<JsonString(strings.hi)>>),
  JsonInt(5),
  JsonInt(-3),
  JsonNumber(Double(FALSE, 2, 1), TRUE),
  JsonObject(<<JsonMember(strings.points, JsonArray(<<
      JsonObject(<<JsonMember(strings.UNUSED, JsonInt(0)), JsonMember(strings.x, JsonInt(3)),
                   JsonMember(strings.y, JsonInt(5))>>),
      JsonObject(<<JsonMember(strings.y, JsonInt(6)), JsonMember(strings.x, JsonInt(4))>>),
      JsonObject(<<JsonMember(strings.y, JsonInt(7))>>),
      JsonObject(<<JsonMember(strings.x, JsonString(strings.WRONGTYPE))>>)>>))>>),
  JsonObject(<<JsonMember(strings.color, JsonInt(1)), JsonMember(strings.mood, JsonInt(2)),
               JsonMember(strings.name, JsonString(UFO)),
               JsonMember(strings.points, JsonArray(<<JsonPoint(3, 5), JsonPoint(4, 6),
                                                    JsonPoint(5, 7)>>))>>),
  JsonObject(<<JsonMember(strings.color, JsonString(strings.hello)),
               JsonMember(strings.mood, JsonInt(0)),
               JsonMember(strings.name, JsonInt(5)),
               JsonMember(strings.points, JsonArray(<<>>))>>),
  JsonPoint(3, 4),
  JsonObject(<<JsonMember(strings.y, JsonInt(4)), JsonMember(strings.x, JsonInt(3))>>),
  JsonObject(<<JsonMember(strings.x, JsonInt(3))>>),
  JsonObject(<<JsonMember(strings.x, JsonString(strings.five)), JsonMember(strings.y, JsonInt(4))>>),
  JsonObject(<<JsonMember(strings.x, JsonInt(3)), JsonMember(strings.y, JsonInt(4)),
               JsonMember(strings.z, JsonInt(5))>>),
  JsonObject(<<>>),
  JsonObject(<<JsonMember(strings.a, JsonPoint(1, 7)), JsonMember(strings.b, JsonPoint(13, 19))>>),
  JsonObject(<<JsonMember(strings.a, JsonPoint(2, 3)), JsonMember(strings.b, JsonInt(5))>>)
>>

\* ------------------------------------------------------------------------
\* The tests as a state machine
\* ------------------------------------------------------------------------

VARIABLES
  test,     \* "roundtrip_u", "roundtrip_s", "visit" or "resize"
  shape,    \* the type of the object under test
  value,    \* the object written
  into,     \* the type of the destination object
  prior,    \* the destination object before the read
  buf,      \* the characters of the stringbuf
  gpos,     \* how many of them have been read
  dest,     \* the destination object
  status,   \* what read_unsigned_int / read_signed_int returned
  errors,   \* reader.errors
  enc,      \* the characters the writer produced
  fault,    \* what was done to the characters afterwards
  L,        \* the Lua stack of the LuaReader
  reader,   \* the ignore_ flags of the LuaReader
  json,     \* the document of the JSON reader
  pc        \* "start", "written", "evaluated", "parsed", "done" or "thrown"

vars == <<test, shape, value, into, prior, buf, gpos, dest, status, errors, enc, fault,
         L, reader, json, pc>>

NoFault == [kind |-> "none", at |-> 0, byte |-> 0, extra |-> <<>>, which |-> <<>>]

Priors(c) == IF c.shape.kind \in {"variant", "text", "seq"}
             THEN {DefaultValue(c.shape), c.value}
             ELSE {DefaultValue(c.shape)}

Init ==
  /\ buf = <<>> /\ gpos = 0 /\ status = "none" /\ errors = <<>>
  /\ enc = <<>> /\ fault = NoFault /\ pc = "start"
  /\ L = <<>> /\ reader = NoIgnore /\ json = JsonNull
  /\ \/ /\ test = "roundtrip_u" /\ shape = IntShape(FALSE, W64)
        /\ value \in U64Inputs /\ prior \in JunkWords /\ into = shape
     \/ /\ test = "roundtrip_s" /\ shape = IntShape(TRUE, W64)
        /\ value \in S64Inputs /\ prior \in JunkWords /\ into = shape
     \/ /\ test = "visit"
        /\ \E i \in 1..Len(Cases) :
             /\ shape = Cases[i].shape /\ value = Cases[i].value
             /\ prior \in Priors(Cases[i])
        /\ into = shape
     \/ /\ test = "chars" /\ shape = CharShape
        /\ value \in {FromNat(c, 8) : c \in 0..255} /\ prior = DefaultValue(CharShape) /\ into = shape
     \/ /\ test = "wire_u" /\ shape = IntShape(FALSE, W64)
        /\ value = Zero(W64) /\ prior \in JunkWords /\ into = shape
     \/ /\ test = "resize"
        /\ \E r \in Resizes :
             /\ shape = r.from /\ value = r.value
             /\ into = r.to /\ prior = r.prior
  /\ dest = prior

Written(bytes) ==
  /\ buf' = buf \o bytes
  /\ enc' = buf \o bytes
  /\ pc' = "written"
  /\ UNCHANGED <<L, reader, json, test, shape, value, into, prior, gpos, dest, status, errors, fault>>

\* traverse::write_unsigned_int(msg, x)
WriteUnsignedInt ==
  /\ pc = "start" /\ test = "roundtrip_u"
  /\ Written(write_unsigned_int(value))

\* traverse::write_signed_int(msg, x)
WriteSignedInt ==
  /\ pc = "start" /\ test = "roundtrip_s"
  /\ Written(write_signed_int(value))

\* visit(serialize, obj)
VisitSerialize ==
  /\ pc = "start" /\ test \in {"visit", "resize", "chars"}
  /\ Written(Serialize(shape, value))

\* the tests damage the message of a visit(serialize, obj)
Damaged(bytes, f) ==
  /\ pc = "written" /\ test = "visit" /\ fault = NoFault
  /\ buf' = bytes
  /\ fault' = f
  /\ UNCHANGED <<L, reader, json, test, shape, value, into, prior, gpos, dest, status, errors, enc, pc>>

\* msg.erase(n)
Erase ==
  /\ Len(buf) > 0
  /\ \E n \in 0..(Len(buf) - 1) :
       Damaged(SubSeq(buf, 1, n), [NoFault EXCEPT !.kind = "truncate", !.at = n])

\* msg[i] = b
Corrupt ==
  /\ Len(buf) > 0
  /\ \E i \in 1..Len(buf) : \E b \in CorruptBytes(buf[i]) :
       Damaged([buf EXCEPT ![i] = b],
               [NoFault EXCEPT !.kind = "corrupt", !.at = i, !.byte = b])

\* for (i...) msg[i] = 0x7f
CorruptAll ==
  /\ Len(buf) > 0
  /\ Damaged([i \in 1..Len(buf) |-> 127], [NoFault EXCEPT !.kind = "corrupt all"])

\* msg += extra
AppendExtra ==
  /\ pc = "written"
  /\ \E extra \in SeqsUpTo(ExtraBytes, MaxExtra) :
       Damaged(buf \o extra, [NoFault EXCEPT !.kind = "append", !.extra = extra])

\* a message from elsewhere (fuzz-test.cpp reads stdin) for a variant, a
\* text or a vector: a discriminant, length or count and what follows it
Inject ==
  /\ pc = "start" /\ test = "visit" /\ shape.kind \in {"variant", "text", "seq"}
  /\ \E which \in WirePrefixes(shape) : \E payload \in WireBodies(shape) :
       /\ (shape.kind = "seq" /\ ZeroWidth(shape.elem) /\ payload # <<>>)
            => (ULess(which, FromNat(MaxAlloc, W64)) \/ which = Ones(64, W64))
       /\ buf' = write_unsigned_int(which) \o payload
       /\ fault' = [NoFault EXCEPT !.kind = "wire", !.which = which]
  /\ pc' = "written"
  /\ UNCHANGED <<L, reader, json, test, shape, value, into, prior, gpos, dest, status, errors, enc>>

\* a source that holds a run of bytes with bit 7 set, ended or not
InjectRun ==
  /\ pc = "start" /\ test = "wire_u"
  /\ \E n \in 1..MaxRun : \E b \in {128, 255} :
     \E end \in {<<>>, <<0>>, <<1>>, <<127>>} :
       /\ buf' = Word([i \in 1..n |-> b]) \o end
       /\ fault' = [NoFault EXCEPT !.kind = "wire", !.extra = end]
  /\ pc' = "written"
  /\ UNCHANGED <<L, reader, json, test, shape, value, into, prior, gpos, dest, status, errors, enc>>

\* the characters of a write_unsigned_int cut short
EraseUnsigned ==
  /\ pc = "written" /\ test = "roundtrip_u" /\ fault = NoFault
  /\ \E n \in 0..(Len(buf) - 1) :
       /\ buf' = SubSeq(buf, 1, n)
       /\ fault' = [NoFault EXCEPT !.kind = "truncate", !.at = n]
  /\ UNCHANGED <<L, reader, json, test, shape, value, into, prior, gpos, dest, status, errors, enc, pc>>

\* traverse::read_unsigned_int(msg, y)
ReadUnsignedInt ==
  /\ pc = "written" /\ test \in {"roundtrip_u", "wire_u"}
  /\ \E ub \in ShiftOutcomes :
       LET r == read_unsigned_int(buf, gpos, dest, ub)
       IN  /\ status' = r.ok
           /\ dest' = r.value
           /\ gpos' = r.pos
  /\ pc' = "done"
  /\ UNCHANGED <<L, reader, json, test, shape, value, into, prior, buf, errors, enc, fault>>

\* traverse::read_signed_int(msg, y)
ReadSignedInt ==
  /\ pc = "written" /\ test = "roundtrip_s"
  /\ \E ub \in ShiftOutcomes :
       LET r == read_signed_int(buf, gpos, ub)
       IN  /\ status' = r.ok
           /\ dest' = r.value
           /\ gpos' = r.pos
  /\ pc' = "done"
  /\ UNCHANGED <<L, reader, json, test, shape, value, into, prior, buf, errors, enc, fault>>

\* the for loop of visit(BinaryDeserialize&, std::vector<Element>&) when an
\* element reads no byte: sgetc() never reaches the end, so the loop makes
\* `size` calls of emplace_back, and a vector cannot hold 2^64-1 elements
Exhausts(sh, bytes, pos) ==
  /\ sh.kind = "seq" /\ ZeroWidth(sh.elem)
  /\ LET r == read_unsigned_int(bytes, pos, Zero(W64), "zero")
     IN  r.ok /\ r.pos < Len(bytes) /\ ~ULess(r.value, FromNat(MaxAlloc, W64))

\* visit(reader, obj2) left by the exception of vector.emplace_back()
VisitDeserializeThrows ==
  /\ pc = "written" /\ test = "visit" /\ Exhausts(into, buf, gpos)
  /\ gpos' = read_unsigned_int(buf, gpos, Zero(W64), "zero").pos
  /\ pc' = "thrown"
  /\ UNCHANGED <<L, reader, json, test, shape, value, into, prior, buf, dest, status, errors, enc, fault>>

\* visit(reader, obj2)
VisitDeserialize ==
  /\ pc = "written" /\ test \in {"visit", "resize", "chars"}
  /\ ~Exhausts(into, buf, gpos)
  /\ \E ub \in ShiftOutcomes : \E junk \in JunkWords :
       LET r == Deserialize(into, dest, buf, gpos, errors,
                            [ub |-> ub, junk |-> junk])
       IN  /\ dest' = r.val
           /\ gpos' = r.pos
           /\ errors' = r.errs
  /\ pc' = "done"
  /\ UNCHANGED <<L, reader, json, test, shape, value, into, prior, buf, status, enc, fault>>

\* lua_eval(L, LUA): the value of the expression is pushed
lua_eval ==
  /\ pc = "start" /\ test = "lua"
  /\ \E i \in 1..Len(LuaInputs) :
       /\ value' = LuaInputs[i]
       /\ L' = Append(L, LuaInputs[i])
  /\ pc' = "evaluated"
  /\ UNCHANGED <<reader, json, test, shape, into, prior, buf, gpos, dest, status, errors, enc, fault>>

\* visit(reader, VAR) for the LuaReader
VisitLuaReader ==
  /\ pc = "evaluated" /\ test = "lua"
  /\ LET r == LuaVisit(into, dest, L, errors, reader)
     IN  /\ dest' = r.val
         /\ L' = r.L
         /\ errors' = r.errs
  /\ pc' = "done"
  /\ UNCHANGED <<reader, json, test, shape, value, into, prior, buf, gpos, status, enc, fault>>

\* json.Parse(from_json), picojson::parse(json2, ...)
JsonParse ==
  /\ pc = "start" /\ test \in {"rapidjson", "picojson"}
  /\ \E i \in 1..Len(JsonInputs) : json' = JsonInputs[i]
  /\ pc' = "parsed"
  /\ UNCHANGED <<L, reader, test, shape, value, into, prior, buf, gpos, dest, status, errors, enc, fault>>

\* visit(jsonreader, output)
VisitJsonReader ==
  /\ pc = "parsed" /\ test \in {"rapidjson", "picojson"}
  /\ \E junk \in JunkWords :
       LET r == JsonVisit(test, into, dest, json, errors, junk)
       IN  /\ dest' = r.val
           /\ errors' = r.errs
           /\ pc' = IF r.crashed THEN "thrown" ELSE "done"
  /\ UNCHANGED <<L, reader, json, test, shape, value, into, prior, buf, gpos, status, enc, fault>>

Next ==
  \/ WriteUnsignedInt \/ WriteSignedInt \/ VisitSerialize
  \/ Erase \/ Corrupt \/ CorruptAll \/ AppendExtra \/ Inject \/ EraseUnsigned
  \/ InjectRun
  \/ ReadUnsignedInt \/ ReadSignedInt \/ VisitDeserialize
  \/ VisitDeserializeThrows

Spec == Init /\ [][Next]_vars

\* the state before a test of test-lua.cpp
LuaInit ==
  /\ test = "lua" /\ pc = "start"
  /\ \E i \in 1..Len(LuaDestinations) :
       /\ into = LuaDestinations[i].shape /\ prior = LuaDestinations[i].prior
  /\ L \in {<<>>, <<LuaNumber(Double(FALSE, 7, 0)), LuaTable(<<>>)>>}
  /\ reader \in [ignore_wrong_type : BOOLEAN, ignore_missing_field : BOOLEAN,
                 ignore_extra_field : BOOLEAN]
  /\ shape = into /\ dest = prior /\ value = LuaNil /\ errors = <<>>
  /\ json = JsonNull
  /\ buf = <<>> /\ gpos = 0 /\ status = "none" /\ enc = <<>> /\ fault = NoFault

LuaNext == lua_eval \/ VisitLuaReader

LuaSpec == LuaInit /\ [][LuaNext]_vars

\* the state before a test of test-rapidjson.cpp or test-picojson.cpp
JsonInit ==
  /\ test \in {"rapidjson", "picojson"} /\ pc = "start"
  /\ \E i \in 1..Len(JsonDestinations) :
       /\ into = JsonDestinations[i].shape /\ prior = JsonDestinations[i].prior
  /\ shape = into /\ dest = prior /\ value = prior /\ errors = <<>>
  /\ json = JsonNull /\ L = <<>> /\ reader = NoIgnore
  /\ buf = <<>> /\ gpos = 0 /\ status = "none" /\ enc = <<>> /\ fault = NoFault

JsonNext == JsonParse \/ VisitJsonReader

JsonSpec == JsonInit /\ [][JsonNext]_vars

\* ------------------------------------------------------------------------
\* Properties
\* ------------------------------------------------------------------------

Undamaged == fault = NoFault

\* C1: for every 64-bit x, write_unsigned_int(x) followed by
\* read_unsigned_int returns true, yields exactly x and consumes exactly the
\* bytes that were written.
C1_UnsignedRoundTrip ==
  (test = "roundtrip_u" /\ pc = "done" /\ Undamaged) =>
    /\ status = TRUE
    /\ dest = value
    /\ gpos = Len(enc) /\ buf = enc

C1_Witness ==
  /\ test = "roundtrip_u" /\ pc = "done" /\ Undamaged
  /\ value = Ones(64, W64) /\ prior # value /\ dest = value /\ gpos = 10

\* C2: for every signed 64-bit x, the minimum -2^63 and the maximum 2^63-1
\* included, write_signed_int(x) followed by read_signed_int returns true and
\* yields exactly x.
C2_SignedRoundTrip ==
  (test = "roundtrip_s" /\ pc = "done") =>
    /\ status = TRUE
    /\ dest = value
    /\ gpos = Len(enc)

C2_Witness ==
  /\ test = "roundtrip_s" /\ pc = "done"
  /\ value = Pow2(63, W64) /\ prior # value /\ dest = value

\* the i-th 7-bit group of a 64-bit word, i = 1 for the least significant
Group7(v, i) ==
  LET bit(j) == IF 7 * (i - 1) + j <= W64 THEN v[7 * (i - 1) + j] ELSE 0
  IN  bit(1) + 2 * bit(2) + 4 * bit(3) + 8 * bit(4) + 16 * bit(5)
        + 32 * bit(6) + 64 * bit(7)

\* C4: write_unsigned_int emits exactly max(1, ceil(bit_length(x)/7)) bytes,
\* never more than 10, least significant 7-bit group first; every byte but
\* the last has bit 7 set and the last has bit 7 clear.
C4_MinimalEncoding ==
  (test = "roundtrip_u" /\ pc # "start") =>
    LET n  == Len(enc)
        bl == BitLength(value)
    IN  /\ n = IF bl = 0 THEN 1 ELSE (bl + 6) \div 7
        /\ n <= 10
        /\ \A i \in 1..n : enc[i] % 128 = Group7(value, i)
        /\ \A i \in 1..(n - 1) : enc[i] >= 128
        /\ enc[n] < 128

C4_Witness ==
  /\ test = "roundtrip_u" /\ pc = "written"
  /\ value = Pow2(63, W64) /\ Len(enc) = 10 /\ enc[10] = 1

\* the zigzag image of a signed word, by arithmetic: 2v, or 2(-v-1)+1
ZigZagImage(v) ==
  IF IsNegative(v)
  THEN LET n == Sub(Neg(v), One64) IN Add(Add(n, n), One64)
  ELSE Add(v, v)

IsCase(sh, v) == test = "visit" /\ shape = sh /\ value = v

\* C5: a signed integer is written as the unsigned varint of its zigzag
\* image, 2v for v >= 0 and 2(-v-1)+1 for v < 0, whatever the width of its
\* type: 0 gives 0, -1 gives 1, 1 gives 2, 1024 gives 128 16, and the
\* unsigned value 1 gives 1.
C5_ZigZagBytes ==
  (pc # "start" /\ fault.kind # "wire") =>
    /\ test = "roundtrip_s" => enc = write_unsigned_int(ZigZagImage(value))
    /\ (test = "visit" /\ shape.kind = "int" /\ shape.signed) =>
          enc = write_unsigned_int(ZigZagImage(SignExtend(value, W64)))
    /\ IsCase(int, SInt(0, 32)) => enc = <<0>>
    /\ IsCase(int, SInt(-1, 32)) => enc = <<1>>
    /\ IsCase(int, SInt(1, 32)) => enc = <<2>>
    /\ IsCase(int, SInt(1024, 32)) => enc = <<128, 16>>
    /\ IsCase(IntShape(TRUE, 64), SInt(1, 64)) => enc = <<2>>
    /\ IsCase(IntShape(TRUE, 16), SInt(-1563, 16)) => enc = <<181, 24>>
    /\ IsCase(IntShape(FALSE, 32), FromNat(1, 32)) => enc = <<1>>

C5_Witness ==
  /\ IsCase(int, SInt(-1, 32)) /\ pc = "written" /\ Undamaged /\ enc = <<1>>

\* C6: the encoding is the concatenation the shape prescribes: a record is
\* its fields in declaration order with nothing added, a sequence its count
\* and then its elements in order, a text its byte length and then exactly
\* its bytes, whatever they are.
C6_ByteExactLayout ==
  (test = "visit" /\ pc # "start" /\ fault.kind # "wire") =>
    /\ IsCase(Polygon, polygon) =>
         enc = <<1, 2, 9, 85, 70, 79, 34, 49, 57, 52, 50, 34,
                 3, 6, 10, 8, 12, 10, 14>>
    /\ IsCase(TextShape, <<0, 255, 128, 0, 10>>) =>
         enc = <<5, 0, 255, 128, 0, 10>>
    /\ IsCase(SeqShape(TextShape), <<<<97>>, <<98, 99>>>>) =>
         enc = <<2, 1, 97, 2, 98, 99>>
    /\ IsCase(MessageQueue, <<m1, m2>>) => enc = <<2, 1, 2, 4, 0, 84, 19, 19>>
    /\ shape.kind = "text" => enc = <<Len(value)>> \o value
    /\ shape.kind = "seq" =>
         /\ enc[1] = Len(value)
         /\ Tail(enc) = Flatten([i \in 1..Len(value) |->
                                   Serialize(shape.elem, value[i])])
    /\ shape.kind = "record" =>
         enc = Flatten([i \in 1..Len(value) |->
                          Serialize(shape.fields[i], value[i])])

C6_Witness ==
  /\ IsCase(Polygon, polygon) /\ pc = "written" /\ Undamaged /\ Len(enc) = 19

\* C3: serializing any value of a supported shape and deserializing the
\* bytes into a fresh value of the same shape yields an equal value and
\* empty Errors().
C3_RoundTrip ==
  (test = "visit" /\ pc = "done" /\ Undamaged) =>
    /\ dest = value
    /\ errors = <<>>

\* C7: deserializing any proper prefix of an encoding records at least one
\* diagnostic.
C7_TruncationDetected ==
  (test = "visit" /\ pc = "done" /\ fault.kind = "truncate") =>
    errors # <<>>

SizeOfFirst(encodings, k) == Len(Flatten(SubSeq(encodings, 1, k)))

RECURSIVE TextBody(_, _, _)
\* the positions, in the encoding of value that starts after off bytes, of
\* the bytes that are the body of a text
TextBody(sh, v, off) ==
  CASE sh.kind = "text" ->
         LET h == Len(write_unsigned_int(FromNat(Len(v), W64)))
         IN  (off + h + 1)..(off + h + Len(v))
    [] sh.kind = "seq" ->
         LET h == Len(write_unsigned_int(FromNat(Len(v), W64)))
             e == [i \in 1..Len(v) |-> Serialize(sh.elem, v[i])]
         IN  UNION {TextBody(sh.elem, v[i], off + h + SizeOfFirst(e, i - 1))
                    : i \in 1..Len(v)}
    [] sh.kind = "record" ->
         LET e == [i \in 1..Len(v) |-> Serialize(sh.fields[i], v[i])]
         IN  UNION {TextBody(sh.fields[i], v[i], off + SizeOfFirst(e, i - 1))
                    : i \in 1..Len(v)}
    [] sh.kind = "variant" ->
         TextBody(sh.alts[v.which + 1], v.val,
                  off + Len(write_unsigned_int(FromNat(v.which, W64))))
    [] OTHER -> {}

\* the read of the bytes as they were written
UndamagedRead ==
  Deserialize(shape, prior, enc, 0, <<>>, [ub |-> "zero", junk |-> Zero(W64)])

C9_RangeChecked ==
  (test = "visit" /\ pc = "done" /\ fault.kind = "wire" /\ shape.kind = "variant") =>
    /\ \E i \in 1..Len(errors) : errors[i].what = "tried to deserialize variant"
    /\ dest = prior

\* C10: when a complete encoding of v is followed by k >= 1 extra bytes,
\* deserialization reproduces v, leaves Errors() empty and consumes exactly
\* the encoding, so that exactly k bytes remain unread.
C10_TrailingBytes ==
  (test = "visit" /\ pc = "done" /\ fault.kind = "append") =>
    /\ dest = value
    /\ errors = <<>>
    /\ gpos = Len(enc)
    /\ Len(buf) - gpos = Len(fault.extra)

\* a primitive is read by one read_unsigned_int or read_signed_int
Primitive(sh) == sh.kind \in {"int", "enum", "bool", "char"}

\* the bytes end before a byte with bit 7 clear
Unterminated(bytes) == \A i \in 1..Len(bytes) : bytes[i] >= 128

\* C11: when the source is exhausted before the terminating byte of a
\* primitive (integer, bool, char, enum), the reader records exactly one
\* "not enough data ... to read number" diagnostic and the destination holds
\* its default value, zero.
C11_FailedPrimitiveIsDefault ==
  (test = "visit" /\ pc = "done" /\ Primitive(shape) /\ Unterminated(buf)) =>
    /\ errors = <<NumberError>>
    /\ dest = DefaultValue(shape)

\* the length or count at the start of the bytes and where it ends
Prefix(bytes) == read_unsigned_int(bytes, 0, Zero(W64), "zero")

\* the bytes after the length or count
AfterPrefix(bytes) == SubSeq(bytes, Prefix(bytes).pos + 1, Len(bytes))

\* C12: when the length L of a text decodes and r < L bytes follow it, for
\* every r from 0 on and also when the bytes end at a 1024-byte chunk
\* boundary, the reader records a string-body diagnostic and the text holds
\* exactly the r bytes.
C12_ShortTextReported ==
  (/\ test = "visit" /\ pc = "done" /\ shape.kind = "text"
   /\ ~Unterminated(buf)
   /\ ULess(FromNat(Len(AfterPrefix(buf)), W64), Prefix(buf).value)) =>
    /\ \E i \in 1..Len(errors) : errors[i].what = "bytes in string"
    /\ dest = AfterPrefix(buf)

\* C13: when the length of a text or the count of a sequence cannot be
\* decoded, the reader records one diagnostic and the destination is empty,
\* whatever it held before the read.
C13_FailedPrefixEmpties ==
  (/\ test = "visit" /\ pc = "done" /\ shape.kind \in {"text", "seq"}
   /\ Unterminated(buf)) =>
    /\ Len(errors) = 1
    /\ dest = <<>>

RECURSIVE HoldsVector(_)
\* a type with a std::vector somewhere in it
HoldsVector(sh) ==
  CASE sh.kind = "seq" -> TRUE
    [] sh.kind = "record" -> \E i \in 1..Len(sh.fields) : HoldsVector(sh.fields[i])
    [] sh.kind = "variant" -> \E i \in 1..Len(sh.alts) : HoldsVector(sh.alts[i])
    [] OTHER -> FALSE

\* the diagnostics about the number of elements of a vector
CountErrors == {i \in 1..Len(errors) : errors[i].what = "elements in vector"}

\* C14: when the count n of a sequence decodes, the reader replaces the
\* destination's contents, reads elements in order and stops when the source
\* is exhausted; with m < n elements started it records exactly one
\* diagnostic "expected n, found m" and the sequence holds m elements; with
\* m = n it records no diagnostic about the sequence.
C14_SequenceCount ==
  (test = "visit" /\ pc = "done" /\ shape.kind = "seq" /\ ~Unterminated(buf)) =>
    LET n == Prefix(buf).value
        m == FromNat(Len(dest), W64)
        e == [i \in 1..Len(value) |-> Serialize(shape.elem, value[i])]
    IN  /\ ~ULess(n, m)
        /\ m # n =>
              /\ gpos = Len(buf)
              /\ errors # <<>>
              /\ errors[Len(errors)] = VectorCountError(n, m)
              /\ ~HoldsVector(shape.elem) => Cardinality(CountErrors) = 1
        /\ m = n =>
              /\ \A i \in CountErrors : errors[i] # VectorCountError(n, m)
              /\ ~HoldsVector(shape.elem) => CountErrors = {}
        /\ fault.kind = "truncate" =>
              \A i \in 1..Len(dest) :
                 Prefix(enc).pos + SizeOfFirst(e, i) <= fault.at => dest[i] = value[i]

C14_Witness ==
  /\ IsCase(SeqShape(Point), Cases[32].value) /\ pc = "done"
  /\ prior = value /\ fault.kind = "truncate" /\ fault.at = 3
  /\ Len(dest) = 1 /\ dest[1] = value[1]
  /\ errors = <<VectorCountError(FromNat(2, W64), One64)>>

RECURSIVE EofErrors(_)
\* what reading a type records when the source is already exhausted
EofErrors(sh) ==
  CASE sh.kind \in {"int", "enum", "bool", "char", "float"} -> <<NumberError>>
    [] sh.kind = "text"   -> <<StringSizeError>>
    [] sh.kind = "seq"    -> <<VectorSizeError>>
    [] sh.kind = "record" ->
         Flatten([i \in 1..Len(sh.fields) |-> EofErrors(sh.fields[i])])

\* C15: reading a record attempts every field once, in declaration order,
\* whatever happened to the earlier fields: the fields that lie whole in the
\* bytes keep their decoded values, every field that starts at the end of
\* the bytes appends its own diagnostic, in field order, and the source is
\* read to its end.
C15_EveryFieldAttempted ==
  (test = "visit" /\ pc = "done" /\ shape.kind = "record" /\ fault.kind = "truncate") =>
    LET e      == [i \in 1..Len(value) |-> Serialize(shape.fields[i], value[i])]
        whole  == {i \in 1..Len(value) : SizeOfFirst(e, i) <= fault.at}
        absent == {i \in 1..Len(value) : SizeOfFirst(e, i - 1) >= fault.at}
        tail   == Flatten([i \in 1..Len(value) |->
                             IF i \in absent THEN EofErrors(shape.fields[i]) ELSE <<>>])
    IN  /\ \A i \in whole : dest[i] = value[i]
        /\ Len(errors) >= Len(tail)
        /\ SubSeq(errors, Len(errors) - Len(tail) + 1, Len(errors)) = tail
        /\ gpos = Len(buf)

C15_Witness ==
  /\ IsCase(Polygon, polygon) /\ pc = "done"
  /\ fault.kind = "truncate" /\ fault.at = 1
  /\ dest[1] = value[1]
  /\ errors = <<NumberError, StringSizeError, VectorSizeError>>

\* C16: after any read a text is no longer than the claimed length and than
\* the bytes that followed the length, and a sequence has no more elements
\* than the claimed count and than the bytes that followed the count, for
\* claimed values up to 2^64-1.
C16_BoundedByAvailable ==
  (/\ test = "visit" /\ pc = "done" /\ shape.kind \in {"text", "seq"}
   /\ ~Unterminated(buf)) =>
    LET claimed   == Prefix(buf).value
        available == FromNat(Len(AfterPrefix(buf)), W64)
        held      == FromNat(Len(dest), W64)
    IN  /\ ~ULess(claimed, held)
        /\ ~ULess(available, held)

\* C17: what a deserialization leaves in the destination and in Errors()
\* depends on nothing but the bytes and the destination's prior contents:
\* every other run on the same bytes and the same prior contents ends with
\* the same destination and the same diagnostics.
C17_Deterministic ==
  (test = "visit" /\ pc = "done") =>
    \A ub \in ShiftOutcomes : \A junk \in JunkWords :
       LET r == Deserialize(into, prior, buf, 0, <<>>, [ub |-> ub, junk |-> junk])
       IN  r.val = dest /\ r.errs = errors

\* C18: read_unsigned_int returns false exactly when the source ends before
\* a byte with bit 7 clear; it then leaves the caller's variable as it was,
\* and otherwise returns true and writes the whole value.
C18_AllOrNothing ==
  (test = "roundtrip_u" /\ pc = "done") =>
    /\ status = ~Unterminated(buf)
    /\ status = FALSE => (dest = prior /\ gpos = Len(buf))
    /\ status = TRUE => (dest = value /\ gpos = Len(enc))

C18_Witness ==
  /\ test = "roundtrip_u" /\ pc = "done"
  /\ fault.kind = "truncate" /\ fault.at = 9 /\ value = Ones(64, W64)
  /\ prior = Zero(W64) /\ status = FALSE /\ dest = Zero(W64) /\ gpos = 9

\* C19: a tagged union is written as the 0-based position of the held
\* alternative, an unsigned varint, followed by the encoding of that
\* alternative's record; reading the bytes selects the alternative at the same
\* position and fills its fields, so which() is the written one.
C19_VariantRoundTrip ==
  (test = "visit" /\ pc # "start" /\ fault.kind # "wire") =>
    /\ shape.kind = "variant" =>
         /\ enc = write_unsigned_int(FromNat(value.which, W64))
                    \o Serialize(shape.alts[value.which + 1], value.val)
         /\ enc[1] = value.which
         /\ (pc = "done" /\ Undamaged) =>
               /\ dest.which = value.which /\ dest.val = value.val
               /\ errors = <<>> /\ gpos = Len(enc)
    /\ IsCase(Message, m1) => enc = <<1, 2, 4>>
    /\ IsCase(Message, m2) => enc = <<0, 84, 19, 19>>
    /\ IsCase(Message, m3) => enc = <<2, 200, 1>>
    /\ (IsCase(MessageQueue, <<m1, m2>>) /\ pc = "done" /\ Undamaged) =>
         /\ Len(dest) = 2 /\ errors = <<>>
         /\ dest[1].which = 1 /\ dest[2].which = 0

C19_Witness ==
  /\ IsCase(Message, m3) /\ pc = "done" /\ Undamaged
  /\ prior.which = 0 /\ dest.which = 2 /\ dest.val = <<SInt(100, 32)>>

\* a word of an integer type as the 64-bit word of the same value
Widen(sh, v) == IF sh.signed THEN SignExtend(v, W64) ELSE ZeroExtend(v, W64)

\* the 64-bit value is one of the type's values
Fits(sh, v) ==
  \A i \in (sh.w + 1)..W64 : v[i] = IF sh.signed THEN v[sh.w] ELSE 0

\* C20: the bytes of an integer do not depend on the width of its type; read
\* into a type of the same signedness and another width they give the same
\* value when it fits (int16 -1563 read as int64) and the value modulo 2^w
\* for an unsigned type of w bits (17291729 read as uint16), and Errors()
\* stays empty.
C20_WidthIndependent ==
  (test = "resize" /\ pc # "start") =>
    LET wide == Widen(shape, value)
    IN  /\ enc = Serialize(IntShape(shape.signed, W64), wide)
        /\ pc = "done" =>
              /\ errors = <<>> /\ gpos = Len(enc)
              /\ Fits(into, wide) => Widen(into, dest) = wide
              /\ ~into.signed => \A i \in 1..into.w : dest[i] = wide[i]
              /\ (shape = IntShape(FALSE, 64) /\ value = FromNat(17291729, W64)
                    /\ into = IntShape(FALSE, 16)) =>
                    dest = FromNat(17291729 % 65536, 16)
              /\ (shape = IntShape(TRUE, 16) /\ value = SInt(-1563, 16)
                    /\ into = IntShape(TRUE, 64)) =>
                    dest = S64(-1563)

C20_Witness ==
  /\ test = "resize" /\ pc = "done"
  /\ shape = IntShape(FALSE, 64) /\ value = FromNat(17291729, W64)
  /\ into = IntShape(FALSE, 16) /\ prior = FromNat(48879, 16)
  /\ dest = FromNat(55761, 16) /\ errors = <<>>

\* C21: an enumeration is written as its underlying integer with that
\* integer's signedness and a boolean as the integer 0 or 1: HULK_SMASH = 2
\* of an unsigned enumeration gives byte 2, NEGATIVE = -1 of an int
\* enumeration gives byte 1 and ONE = 1 gives byte 2 (zigzag); reading the
\* bytes restores the same enumerator.
C21_EnumUnderlying ==
  /\ (test = "visit" /\ pc # "start" /\ fault.kind # "wire") =>
       /\ shape.kind = "enum" =>
            enc = Serialize(IntShape(shape.signed, shape.w), value)
       /\ shape.kind = "bool" => enc = <<IF value THEN 1 ELSE 0>>
       /\ IsCase(Mood, FromNat(2, 32)) => enc = <<2>>
       /\ IsCase(Signed, SInt(-1, 32)) => enc = <<1>>
       /\ IsCase(Signed, SInt(1, 32)) => enc = <<2>>
  /\ (test = "visit" /\ pc = "done" /\ Undamaged
        /\ shape.kind \in {"enum", "bool"}) =>
       (dest = value /\ errors = <<>> /\ gpos = Len(enc))

C21_Witness ==
  /\ IsCase(Signed, SInt(-1, 32)) /\ pc = "done" /\ Undamaged
  /\ enc = <<1>> /\ dest = SInt(-1, 32) /\ errors = <<>>

C23_CharAsSignedInt ==
  (test = "chars" /\ pc # "start" /\ value[8] = 0) =>
    /\ enc = write_signed_int(ZeroExtend(value, W64))
    /\ value = FromNat(64, 8) => enc = <<128, 1>>

\* where the encoding of a value of the shape that starts at pos ends, or -1
\* when the bytes hold no such encoding
RECURSIVE Ends(_, _, _)
RECURSIVE EndsElements(_, _, _, _)
RECURSIVE EndsFields(_, _, _, _)
Ends(sh, bytes, pos) ==
  IF pos < 0 THEN -1
  ELSE IF sh.kind = "record" THEN EndsFields(sh.fields, 1, bytes, pos)
  ELSE LET r == read_unsigned_int(bytes, pos, Zero(W64), "zero")
           left == FromNat(Len(bytes) - r.pos, W64)
       IN  IF ~r.ok THEN -1
           ELSE CASE sh.kind = "text" ->
                       IF ULess(left, r.value) THEN -1
                       ELSE r.pos + ToNat(r.value)
                  [] sh.kind = "seq" ->
                       IF ZeroWidth(sh.elem) THEN r.pos
                       ELSE IF ULess(left, r.value) THEN -1
                       ELSE EndsElements(sh.elem, ToNat(r.value), bytes, r.pos)
                  [] sh.kind = "variant" ->
                       IF ULess(r.value, FromNat(Len(sh.alts), W64))
                       THEN Ends(sh.alts[ToNat(r.value) + 1], bytes, r.pos)
                       ELSE -1
                  [] OTHER -> r.pos
EndsElements(elem, n, bytes, pos) ==
  IF n = 0 \/ pos < 0 THEN pos
  ELSE EndsElements(elem, n - 1, bytes, Ends(elem, bytes, pos))
EndsFields(fields, k, bytes, pos) ==
  IF k > Len(fields) \/ pos < 0 THEN pos
  ELSE EndsFields(fields, k + 1, bytes, Ends(fields[k], bytes, pos))

\* C24: every diagnostic of the binary reader is a line that begins with
\* 'Error', never 'Warning', and Errors() is empty exactly when no read has
\* failed, that is when the source held a whole encoding of the destination.
C24_ErrorsOnly ==
  (test = "visit" /\ pc = "done") =>
    /\ \A i \in 1..Len(errors) : errors[i].severity = "Error"
    /\ (errors = <<>>) <=> (Ends(into, buf, 0) # -1)

\* C25: a floating-point value is written without loss, so that the value
\* read back is the value written: 0.5 is reproduced exactly.
C25_FloatExact ==
  (test = "visit" /\ shape.kind = "float" /\ pc = "done" /\ Undamaged) =>
    /\ dest = value
    /\ errors = <<>>

\* C29: read_unsigned_int consumes at most 10 bytes for one integer and
\* shifts no group of 7 bits by 64 or more, also on a long run of bytes with
\* bit 7 set.
C29_AtMostTenBytes ==
  (test \in {"roundtrip_u", "wire_u"} /\ pc = "done") =>
    /\ gpos <= 10
    /\ 7 * (gpos - 1) < 64

\* C30: deserializing any bytes into any shape returns to the caller, also
\* when a length or count claims up to 2^64-1, having read no further than the
\* end of the bytes.
C30_Returns ==
  (test \in {"visit", "resize", "chars"}) =>
    /\ pc # "thrown"
    /\ gpos <= Len(buf)

\* C26: visit(LuaReader&, x) removes exactly the one value on top of the Lua
\* stack, on success and on every error path (wrong type, missing field,
\* extra field, bad vector index): the stack afterwards is the stack before
\* without its top, the values below untouched.
C26_PopsExactlyOne ==
  [][(test = "lua" /\ pc = "evaluated") => L' = SubSeq(L, 1, Len(L) - 1)]_vars

C26_Witness ==
  /\ test = "lua" /\ pc = "done" /\ reader = NoIgnore
  /\ into = TraversePoint /\ value = LuaInputs[12]
  /\ L = <<LuaNumber(Double(FALSE, 7, 0)), LuaTable(<<>>)>> /\ Len(errors) = 1 /\ dest = PointValue(3, 4)

\* the key of a table read as a vector of n elements is one of 1..n
LuaIndexInRange(key, n) ==
  LET index == lua_tointeger(key)
  IN  ~IsNegative(index) /\ ~IsZero(index) /\ ~ULess(FromNat(n, W64), index)

RECURSIVE Mismatches(_, _)
\* the kinds of mismatch between a C++ type and a Lua value
Mismatches(sh, v) ==
  CASE sh.kind \in {"int", "enum", "float"} ->
         IF v.t = "number" THEN {} ELSE {"wrong_type"}
    [] sh.kind = "text" -> IF v.t = "string" THEN {} ELSE {"wrong_type"}
    [] sh.kind = "seq" ->
         IF v.t # "table" THEN {"wrong_type"}
         ELSE LET n == Border(v, 0)
              IN  UNION {Mismatches(sh.elem, lua_rawgeti(v, i)) : i \in 1..n}
                  \cup (IF \E p \in 1..Len(v.pairs) :
                             \/ v.pairs[p].key.t # "number"
                             \/ ~LuaIndexInRange(v.pairs[p].key, n)
                        THEN {"extra_field"} ELSE {})
    [] sh.kind = "record" ->
         IF v.t # "table" THEN {"wrong_type"}
         ELSE UNION {LET f == lua_getfield(v, sh.labels[k])
                     IN  IF f.t = "nil" THEN {"missing_field"}
                         ELSE Mismatches(sh.fields[k], f) : k \in 1..Len(sh.fields)}
              \cup (IF \E p \in 1..Len(v.pairs) :
                         \/ v.pairs[p].key.t # "string"
                         \/ \A k \in 1..Len(sh.labels) : sh.labels[k] # v.pairs[p].key.s
                    THEN {"extra_field"} ELSE {})

\* the kinds of mismatch the reader was told to ignore
Ignored(rd) ==
  (IF rd.ignore_wrong_type THEN {"wrong_type"} ELSE {})
    \cup (IF rd.ignore_missing_field THEN {"missing_field"} ELSE {})
    \cup (IF rd.ignore_extra_field THEN {"extra_field"} ELSE {})

RECURSIVE Strip(_, _)
\* the Lua value without the keys its C++ type has no place for
Strip(sh, v) ==
  IF v.t # "table" \/ sh.kind \notin {"seq", "record"} THEN v
  ELSE LET n == Border(v, 0)
           Keep(p) ==
             IF sh.kind = "seq"
             THEN p.key.t = "number" /\ LuaIndexInRange(p.key, n)
             ELSE p.key.t = "string"
                    /\ \E k \in 1..Len(sh.labels) : sh.labels[k] = p.key.s
           Inner(p) ==
             IF sh.kind = "seq" THEN sh.elem
             ELSE sh.fields[CHOOSE k \in 1..Len(sh.labels) : sh.labels[k] = p.key.s]
           kept == SelectSeq(v.pairs, Keep)
       IN  LuaTable([i \in 1..Len(kept) |->
                       LuaPair(kept[i].key, Strip(Inner(kept[i]), kept[i].val))])

\* C27: a mismatch between the Lua value and the C++ type is reported exactly
\* when its ignore_ flag is off: Errors is non-empty exactly when the value
\* has a wrong type, a missing field or an extra key or index whose flag is
\* false. An ignored mismatch leaves the C++ value as it was: a value of the
\* wrong type leaves the destination unchanged, a missing field leaves that
\* field unchanged, and extra keys change nothing in what is read.
C27_ReportedUnlessIgnored ==
  (test = "lua" /\ pc = "done") =>
    /\ (errors # <<>>) <=> (Mismatches(into, value) \ Ignored(reader) # {})
    /\ "wrong_type" \in Mismatches(into, value) /\ value.t # "table" => dest = prior
    /\ (into.kind = "record" /\ value.t = "table") =>
         \A k \in 1..Len(into.fields) :
           lua_getfield(value, into.labels[k]).t = "nil" => dest[k] = prior[k]
    /\ reader.ignore_extra_field =>
         dest = LuaVisit(into, prior, <<Strip(into, value)>>, <<>>, reader).val

C27_Witness ==
  /\ test = "lua" /\ pc = "done"
  /\ reader = [NoIgnore EXCEPT !.ignore_missing_field = TRUE]
  /\ into = TraversePoint /\ value = LuaInputs[13] /\ prior = PointValue(8, 9)
  /\ dest = PointValue(3, 9) /\ errors = <<>>

\* a JSON value has the JSON type a C++ type is read from
JsonRightType(sh, v) ==
  CASE sh.kind \in {"int", "enum", "float"} -> v.t = "number"
    [] sh.kind = "bool"   -> v.t \in {"bool", "number"}
    [] sh.kind = "text"   -> v.t = "string"
    [] sh.kind = "seq"    -> v.t = "array"
    [] sh.kind = "record" -> v.t = "object"

RECURSIVE JsonClean(_, _)
\* a JSON value matches a C++ type all the way down
JsonClean(sh, v) ==
  /\ JsonRightType(sh, v)
  /\ CASE sh.kind \in {"int", "enum"} -> ~v.real /\ (v.n.neg => sh.signed)
       [] sh.kind = "seq" -> \A i \in 1..Len(v.items) : JsonClean(sh.elem, v.items[i])
       [] sh.kind = "record" ->
            \A k \in 1..Len(sh.fields) :
              /\ FindMember(v, sh.labels[k]) # 0
              /\ JsonClean(sh.fields[k], v.members[FindMember(v, sh.labels[k])].value)
       [] OTHER -> TRUE

\* the fields of the record whose key is missing or holds the wrong type
JsonBadFields ==
  {k \in 1..Len(into.fields) :
     \/ FindMember(json, into.labels[k]) = 0
     \/ ~JsonRightType(into.fields[k],
                       json.members[FindMember(json, into.labels[k])].value)}

\* C28: reading a JSON object into a record is best-effort per field: a key
\* present with the right type sets the field; a missing key or a value of
\* the wrong type keeps the field's previous value and appends one line that
\* begins with 'Warning'; undeclared keys are ignored without a diagnostic,
\* in whatever order the keys come.
C28_BestEffortPerField ==
  (test \in {"rapidjson", "picojson"} /\ pc \in {"done", "thrown"}
     /\ into.kind = "record" /\ json.t = "object") =>
    /\ pc = "done"
    /\ \A i \in 1..Len(errors) : errors[i].severity = "Warning"
    /\ \A k \in JsonBadFields : dest[k] = prior[k]
    /\ \A k \in (1..Len(into.fields)) \ JsonBadFields :
         LET v == json.members[FindMember(json, into.labels[k])].value
         IN  /\ into.fields[k].kind = "text" => dest[k] = v.s
             /\ (into.fields[k].kind \in {"int", "enum"} /\ JsonClean(into.fields[k], v)) =>
                  dest[k] = Truncate(DoubleToInt64(v.n), into.fields[k].w)
    /\ (\A k \in (1..Len(into.fields)) \ JsonBadFields :
          JsonClean(into.fields[k],
                    json.members[FindMember(json, into.labels[k])].value)) =>
         Len(errors) = Cardinality(JsonBadFields)

====
